---- MODULE Spec2Model ----
(***************************************************************************)
(* OfferComparision: the resilient call layer (utils/call_llm.py) and the  *)
(* stage merge of the enrichment pipeline (nodes.py), as state machines.   *)
(***************************************************************************)
EXTENDS Integers, Sequences, FiniteSets, TLC

(* ------------------------------ bounds --------------------------------- *)
\* depth at which the interpreter stops the recursion of call_llm
RecursionLimit == 3
\* last instant of the cache clock
MaxClock == 1

(* --------------------------- configuration ----------------------------- *)
None == "None"

\* AI_PROVIDERS: provider id -> ordered model list (declaration order below)
AI_PROVIDERS ==
  [openai    |-> <<"gpt-4o", "gpt-4o-mini", "gpt-4-turbo">>,
   gemini    |-> <<"gemini-3-flash-preview", "gemini-2.5-flash", "gemini-2.5-flash-lite">>,
   anthropic |-> <<"claude-3-5-sonnet-20241022", "claude-3-haiku-20240307">>]

\* iteration order of AI_PROVIDERS.items()
ProviderOrder == <<"openai", "gemini", "anthropic">>

ProviderIds == {ProviderOrder[i] : i \in 1..Len(ProviderOrder)}

\* values of the DEFAULT_AI_PROVIDER environment variable (lower-cased)
DefaultEnvValues == {"", "openai", "gemini", "anthropic", "mistral"}

\* the call parameters that enter the cache key besides provider and model
\* (temperature, max_tokens, system prompt and prompt), as one token
Prompts == {"p1", "p2"}

\* model arguments a caller passes: none, a configured model, a custom one
RequestedModels == {None, "gemini-2.5-flash", "custom-model"}

\* credentials of the runs that make two calls
RepeatCreds == {{"gemini"}, {"anthropic"}, {"openai", "gemini"}}

\* config.cache_ttl_seconds
CacheTTL == 1

\* delay carried by a RetryInfo hint ("Please retry in 1s")
HintDelay == 1

(* ------------------------- provider answers ---------------------------- *)
\* An error raised by a provider SDK, by what the cascade reads from it:
\* the status in str(e), the quotaId of the QuotaFailure detail and the
\* retryDelay of the RetryInfo detail (0: no hint).
Faults ==
  [status : {"429"}, quotaId : {"PerMinute"}, retryDelay : {0, HintDelay}]
    \cup [status : {"429"}, quotaId : {"PerDay", ""}, retryDelay : {0}]
    \cup [status : {"404", "500"}, quotaId : {""}, retryDelay : {0}]

\* a successful answer
OKAnswer == [status |-> "200", quotaId |-> "", retryDelay |-> 0]
Answers == {OKAnswer} \cup Faults

NoErr == [status |-> "", quotaId |-> "", retryDelay |-> 0, model |-> None]

\* the exception object e caught for an attempt on model m
ErrOf(f, m) == [status |-> f.status, quotaId |-> f.quotaId,
                retryDelay |-> f.retryDelay, model |-> m]

\* is_rate_limit = "429" in error_str or "RESOURCE_EXHAUSTED" ... or "Quota"
is_rate_limit(e) == e.status = "429"

\* 'PerDay' is looked for first, then 'PerMinute'
_parse_quota_type(e) ==
  IF e.quotaId = "PerDay" THEN "RPD"
  ELSE IF e.quotaId = "PerMinute" THEN "RPM"
  ELSE None

\* the float of the RetryInfo detail, None (0 here) when there is none
_parse_retry_delay(e) == e.retryDelay

is_not_found(e) == e.status = "404"

(* ------------------------------ state ---------------------------------- *)
VARIABLES
  creds,            \* providers whose credential variable is set
  defaultEnv,       \* DEFAULT_AI_PROVIDER
  enable_cache,     \* config.enable_cache
  pc,               \* position of the (single) caller thread
  prompt,           \* arguments of the top-level call
  reqModel,
  provider,         \* provider / model of the current call_llm frame
  model,
  depth,            \* number of nested call_llm frames
  cascade_models,   \* locals of call_llm_gemini
  idx,
  retry_attempted,
  last_error,
  pendingDelay,     \* argument of the time.sleep in progress
  exc,              \* exception caught by the frame's except clause
  result,           \* what the top-level call gave its caller
  cache,            \* the response cache: set of [key, resp, at]
  clock,
  plan,             \* number of calls the caller makes
  nCalls,           \* top-level calls started
  attempts,         \* the (provider, model) pairs this top-level call sent a
                    \* request to, in order (a retry of the pair is not repeated)
  tries,            \* the pair attempted last: its answers and its sleeps
  lastFault,        \* error of the last failed attempt of this call
  hardAt,           \* length of attempts when an attempt of this call failed
                    \* with neither a rate limit nor a 404 (0: none did)
  rpdRun,           \* Gemini models that answered a per-day limit in this run
                    \* of the cascade, in this top-level call, and in the
  rpdCall,          \* earlier top-level calls of the process
  rpdBefore,
  prev              \* the previous top-level call: its arguments and result

callVars == <<creds, defaultEnv, enable_cache, plan, pc, prompt, reqModel, provider,
              model, depth, cascade_models, idx, retry_attempted, last_error,
              pendingDelay, exc, result, cache, clock, nCalls, attempts,
              tries, lastFault, hardAt, rpdRun, rpdCall, rpdBefore, prev>>

(* the pipeline run: the shared store and the stage in progress *)
VARIABLES
  shared,           \* the shared store: offers, comparison_results, ...
  before,           \* shared["offers"] when the stage in progress started
  node,             \* position in the flow of the stage in progress (0: none)
  phase,            \* "idle", "exec", "merged", "raised" (and "quick_..." in
                    \* the quick analysis stage)
  items,            \* prep_res of the stage in progress
  completed,        \* indexes of the finished item tasks, in completion order
  exec_res,         \* result of each finished item task, by item index
  exec_res_list,    \* the list the last merge was given
  ended,            \* the exception each item task's external calls ended in
  raised,           \* the exception that left the stage in progress
  skipped,          \* the stage and the item whose task yielded no result
  request,          \* req.offers of the request to analyze (none: <<>>)
  levels,           \* the level mappings: whether COMPANY_LEVEL_MAP covers the
                    \* run's offers, and the keys in company_levels_cache.json
  lookups           \* the level lookup of each item task of the benchmarking

stageVars == <<shared, before, node, phase, items, completed, exec_res,
               exec_res_list, ended, raised, skipped, request, levels,
               lookups>>

VARIABLES
  limiter           \* the rate limiter: the user's row of the user_usage table,
                    \* the date, the requests of the user in progress and the
                    \* calls that returned normally on each day

limitVars == <<limiter>>

vars == <<callVars, stageVars, limitVars>>

\* largest number of requests of the user in a run
MaxRequests == 3

\* the days of a run
MaxDay == 2

DAILY_LIMIT == 2

\* no row of the user in user_usage (row.data is empty)
NoRow ==
  [exists |-> FALSE, daily_count |-> 0, last_used_date |-> 0,
   total_analyses |-> 0]

\* a request of the user that has not reached the rate limiter
NewRequest == [pc |-> "new", today |-> 0, row |-> NoRow]

\* no request to the server
NoLimiter ==
  [row |-> NoRow, today |-> 1, reqs |-> <<>>, passed |-> [d \in 1..MaxDay |-> 0]]

\* the store with no offer in it
EmptyShared ==
  [offers |-> <<>>, has_comparison |-> FALSE, ranked_offers |-> <<>>,
   scoring_weights |-> "", ai_analysis |-> "", decision_framework |-> "",
   visualization_data |-> <<>>, final_report |-> <<>>]

\* no pipeline run
NoRun ==
  /\ shared = EmptyShared
  /\ before = <<>>
  /\ node = 0
  /\ phase = "idle"
  /\ items = <<>>
  /\ completed = <<>>
  /\ exec_res = <<>>
  /\ exec_res_list = <<>>
  /\ ended = <<>>
  /\ raised = [type |-> "", cause |-> NoErr]
  /\ skipped = [node |-> 0, item |-> 0]
  /\ request = <<>>
  /\ levels = [static |-> TRUE, file |-> <<>>]
  /\ lookups = <<>>

(* ------------------------ provider selection --------------------------- *)
RECURSIVE SelectAvail(_, _)
SelectAvail(i, keys) ==
  IF i > Len(ProviderOrder) THEN <<>>
  ELSE (IF ProviderOrder[i] \in keys THEN <<ProviderOrder[i]>> ELSE <<>>)
         \o SelectAvail(i + 1, keys)

get_available_providers == SelectAvail(1, creds)

\* get_default_provider without the look at DEFAULT_AI_PROVIDER
get_default_provider_FirstAvailable ==
  IF get_available_providers # <<>> THEN get_available_providers[1] ELSE None

get_default_provider ==
  IF defaultEnv \in ProviderIds /\ defaultEnv \in creds THEN defaultEnv
  ELSE IF get_available_providers # <<>> THEN get_available_providers[1]
  ELSE None

RECURSIVE Without(_, _)
Without(s, x) ==
  IF s = <<>> THEN <<>>
  ELSE (IF Head(s) = x THEN <<>> ELSE <<Head(s)>>) \o Without(Tail(s), x)

InSeq(s, x) == \E i \in 1..Len(s) : s[i] = x

\* the chain with the requested model put in front of the whole list
CascadeFor_InFront(m) ==
  IF m # None THEN <<m>> \o AI_PROVIDERS["gemini"] ELSE AI_PROVIDERS["gemini"]

\* the cascade chain of call_llm_gemini for a requested model
CascadeFor(m) ==
  IF m # None /\ ~InSeq(AI_PROVIDERS["gemini"], m) THEN <<m>> \o AI_PROVIDERS["gemini"]
  ELSE IF m # None THEN <<m>> \o Without(AI_PROVIDERS["gemini"], m)
  ELSE AI_PROVIDERS["gemini"]

(* ------------------------------ cache ---------------------------------- *)
\* the fingerprint of a call: kind, provider, model and payload
cache_key_parts(p, m, q) == <<"llm", p, m, q>>

CacheHit(k) == \E c \in cache : c.key = k /\ clock - c.at < CacheTTL
CacheGet(k) == (CHOOSE c \in cache : c.key = k /\ clock - c.at < CacheTTL).resp
CachePut(k, r) == {c \in cache : c.key # k} \cup {[key |-> k, resp |-> r, at |-> clock]}

(* ---------------------------- exceptions ------------------------------- *)
NoResp == <<>>
\* what a call gave its caller: a response or an exception, the frame that
\* produced it and the instant
NoResult == [kind |-> "none", type |-> "", resp |-> NoResp, cause |-> NoErr,
             frame |-> 0, at |-> 0]
Returned(r) == [kind |-> "ok", type |-> "", resp |-> r, cause |-> NoErr,
                frame |-> depth, at |-> clock]
Raised(x) == [kind |-> "raise", type |-> x.type, resp |-> NoResp, cause |-> x.cause,
              frame |-> depth, at |-> clock]
Exc(t, e) == [type |-> t, cause |-> e]
NoExc == Exc("", NoErr)

NoTries == [depth |-> 0, provider |-> None, model |-> None, outs |-> <<>>,
            slept |-> <<>>]
NoPrev == [prompt |-> "", reqModel |-> None, kind |-> "none", resp |-> NoResp,
           frame |-> 0, at |-> 0]

\* the process before its first call
Fresh ==
  /\ pc = "idle"
  /\ prompt = ""
  /\ reqModel = None
  /\ provider = None
  /\ model = None
  /\ depth = 0
  /\ cascade_models = <<>>
  /\ idx = 0
  /\ retry_attempted = FALSE
  /\ last_error = NoErr
  /\ pendingDelay = 0
  /\ exc = NoExc
  /\ result = NoResult
  /\ cache = {}
  /\ clock = 0
  /\ nCalls = 0
  /\ attempts = <<>>
  /\ tries = NoTries
  /\ lastFault = NoErr
  /\ hardAt = 0
  /\ rpdRun = {}
  /\ rpdCall = {}
  /\ rpdBefore = {}
  /\ prev = NoPrev

\* any credentials and configuration, one call
Init ==
  /\ creds \in SUBSET ProviderIds
  /\ defaultEnv \in DefaultEnvValues
  /\ enable_cache \in BOOLEAN
  /\ plan = 1
  /\ Fresh
  /\ NoRun
  /\ limiter = NoLimiter

\* two calls in a row, with the response cache switched on
InitRepeat ==
  /\ creds \in RepeatCreds
  /\ defaultEnv = ""
  /\ enable_cache = TRUE
  /\ plan = 2
  /\ Fresh
  /\ NoRun
  /\ limiter = NoLimiter

(* ----------------------------- call_llm -------------------------------- *)
\* a caller calls call_llm(prompt, model) with no provider argument
call_llm_start(q, m) ==
  /\ pc \in {"idle", "returned"}
  /\ nCalls < plan
  /\ nCalls' = nCalls + 1
  /\ prompt' = q
  /\ reqModel' = m
  /\ provider' = None
  /\ model' = m
  /\ depth' = 1
  /\ pc' = "call_llm"
  /\ prev' = IF pc = "returned"
             THEN [prompt |-> prompt, reqModel |-> reqModel, kind |-> result.kind,
                   resp |-> result.resp, frame |-> result.frame, at |-> result.at]
             ELSE prev
  /\ result' = NoResult
  /\ exc' = NoExc
  /\ attempts' = <<>>
  /\ tries' = NoTries
  /\ lastFault' = NoErr
  /\ hardAt' = 0
  /\ rpdRun' = {}
  /\ rpdCall' = {}
  /\ rpdBefore' = rpdBefore \cup rpdCall
  /\ UNCHANGED <<stageVars, limiter, creds, defaultEnv, enable_cache, plan, cascade_models, idx,
                 retry_attempted, last_error, pendingDelay, cache, clock>>

\* the frame is left: its locals are dead
FrameDone(res) ==
  /\ result' = res
  /\ pc' = "returned"
  /\ provider' = None
  /\ model' = None
  /\ depth' = 0
  /\ cascade_models' = <<>>
  /\ idx' = 0
  /\ retry_attempted' = FALSE
  /\ last_error' = NoErr
  /\ pendingDelay' = 0
  /\ exc' = NoExc

\* _dispatch returned r: cached_call stores it under the frame's key and the
\* value is returned through every enclosing frame
ReturnOK(r) ==
  /\ cache' = IF enable_cache
              THEN CachePut(cache_key_parts(provider, model, prompt), r)
              ELSE cache
  /\ FrameDone(Returned(r))

\* the provider and the model a frame works with
ProviderOf(p) == IF p = None THEN get_default_provider ELSE p
ModelOf(p, m) == IF m = None THEN AI_PROVIDERS[p][1] ELSE m

\* call_llm up to the dispatch: provider, model, cache lookup
call_llm_entry ==
  /\ pc = "call_llm"
  /\ LET p == ProviderOf(provider) IN
     IF p = None
     THEN /\ FrameDone(Raised(Exc("No AI provider available", NoErr)))
          /\ UNCHANGED <<cache>>
     ELSE LET m == ModelOf(p, model)
              k == cache_key_parts(p, m, prompt) IN
          IF enable_cache /\ CacheHit(k)
          THEN /\ FrameDone(Returned(CacheGet(k)))
               /\ UNCHANGED <<cache>>
          ELSE /\ provider' = p
               /\ model' = m
               /\ pc' = "dispatch"
               /\ UNCHANGED <<depth, cascade_models, idx, retry_attempted,
                              last_error, pendingDelay, exc, result, cache>>
  /\ UNCHANGED <<stageVars, limiter, creds, defaultEnv, enable_cache, plan, prompt, reqModel, clock,
                 nCalls, attempts, tries, lastFault, hardAt, rpdRun, rpdCall,
                 rpdBefore, prev>>

\* the two rate limits the cascade tells apart
LongPeriodLimit(a) == is_rate_limit(a) /\ _parse_quota_type(a) = "RPD"
ShortPeriodLimit(a) == is_rate_limit(a) /\ _parse_quota_type(a) = "RPM"

\* the history of one provider invocation on model m answered by a
Attempted(p, m, a) ==
  /\ attempts' = IF tries.model = m /\ tries.depth = depth
                 THEN attempts
                 ELSE Append(attempts, <<p, m>>)
  /\ tries' = IF tries.model = m /\ tries.depth = depth
              THEN [tries EXCEPT !.outs = Append(@, a)]
              ELSE [depth |-> depth, provider |-> p, model |-> m, outs |-> <<a>>,
                    slept |-> <<>>]
  /\ lastFault' = IF a = OKAnswer THEN lastFault ELSE ErrOf(a, m)
  /\ hardAt' = IF a # OKAnswer /\ ~is_rate_limit(a) /\ ~is_not_found(a) /\ hardAt = 0
               THEN Len(attempts')
               ELSE hardAt
  /\ IF p = "gemini" /\ LongPeriodLimit(a)
     THEN rpdRun' = rpdRun \cup {m} /\ rpdCall' = rpdCall \cup {m}
     ELSE UNCHANGED <<rpdRun, rpdCall>>

\* the text a provider answers with: told apart by provider, model and call
Response(p, m) == <<p, m, nCalls>>

\* call_llm_openai / call_llm_anthropic: one request on the given model, any
\* exception wrapped and raised
SingleModelCall(p, wrapper, a) ==
  /\ pc = "dispatch"
  /\ provider = p
  /\ Attempted(p, model, a)
  /\ IF a = OKAnswer
     THEN ReturnOK(Response(p, model))
     ELSE /\ exc' = Exc(wrapper, ErrOf(a, model))
          /\ pc' = "except"
          /\ UNCHANGED <<provider, model, depth, cascade_models, idx,
                         retry_attempted, last_error, pendingDelay, result, cache>>
  /\ UNCHANGED <<stageVars, limiter, creds, defaultEnv, enable_cache, plan, prompt, reqModel, clock,
                 nCalls, rpdBefore, prev>>

call_llm_openai(a) == SingleModelCall("openai", "OpenAI API error", a)

call_llm_anthropic(a) == SingleModelCall("anthropic", "Claude API error", a)

(* -------------------------- call_llm_gemini ---------------------------- *)
\* every rate limit retried once, the per-day one included
CascadeStep_RetriesPerDay(e, retried) ==
  IF is_rate_limit(e)
  THEN IF ~retried THEN "retry" ELSE "next"
  ELSE IF is_not_found(e) THEN "next"
  ELSE "raise"

\* the except clause of one attempt: what the cascade does with error e
\* when retry_attempted has the value retried
CascadeStep(e, retried) ==
  IF is_rate_limit(e)
  THEN IF _parse_quota_type(e) = "RPD" THEN "next"
       ELSE IF _parse_quota_type(e) = "RPM" /\ _parse_retry_delay(e) # 0 /\ ~retried
            THEN "retry"
       ELSE "next"
  ELSE IF is_not_found(e) THEN "next"
  ELSE "raise"

\* call_llm_gemini up to the loop: credential check and cascade chain
call_llm_gemini ==
  /\ pc = "dispatch"
  /\ provider = "gemini"
  /\ rpdRun' = {}
  /\ IF "gemini" \notin creds
     THEN /\ exc' = Exc("GEMINI_API_KEY not found.", NoErr)
          /\ pc' = "except"
          /\ UNCHANGED <<cascade_models, idx, retry_attempted, last_error>>
     ELSE /\ cascade_models' = CascadeFor(model)
          /\ idx' = 1
          /\ retry_attempted' = FALSE
          /\ last_error' = NoErr
          /\ pc' = "gemini_try"
          /\ UNCHANGED exc
  /\ UNCHANGED <<stageVars, limiter, creds, defaultEnv, enable_cache, plan, prompt, reqModel, provider,
                 model, depth, pendingDelay, result, cache, clock, nCalls,
                 attempts, tries, lastFault, hardAt, rpdCall, rpdBefore,
                 prev>>

\* one generate_content request on the current model, with its except clause
gemini_attempt(a) ==
  /\ pc = "gemini_try"
  /\ LET m == cascade_models[idx]
         e == ErrOf(a, m)
         step == IF a = OKAnswer THEN "return" ELSE CascadeStep(e, retry_attempted)
     IN
     /\ Attempted("gemini", m, a)
     /\ CASE step = "return" ->
              /\ ReturnOK(Response("gemini", m))
         [] step = "retry" ->
              /\ pendingDelay' = _parse_retry_delay(e)
              /\ pc' = "gemini_sleep"
              /\ UNCHANGED <<provider, model, depth, cascade_models, idx,
                             retry_attempted, last_error, exc, result, cache>>
         [] step = "next" /\ idx < Len(cascade_models) ->
              /\ last_error' = e
              /\ idx' = idx + 1
              /\ retry_attempted' = FALSE
              /\ pc' = "gemini_try"
              /\ UNCHANGED <<provider, model, depth, cascade_models,
                             pendingDelay, exc, result, cache>>
         [] step = "next" /\ idx = Len(cascade_models) ->
              /\ last_error' = e
              /\ exc' = Exc("All Gemini models exhausted", e)
              /\ pc' = "except"
              /\ UNCHANGED <<provider, model, depth, cascade_models, idx,
                             retry_attempted, pendingDelay, result, cache>>
         [] step = "raise" ->
              /\ exc' = Exc("Gemini API error", e)
              /\ pc' = "except"
              /\ UNCHANGED <<provider, model, depth, cascade_models, idx,
                             retry_attempted, last_error, pendingDelay, result,
                             cache>>
  /\ UNCHANGED <<stageVars, limiter, creds, defaultEnv, enable_cache, plan, prompt, reqModel, clock,
                 nCalls, rpdBefore, prev>>

\* time.sleep(retry_delay); retry_attempted = True; continue
gemini_sleep ==
  /\ pc = "gemini_sleep"
  /\ tries' = [tries EXCEPT !.slept = Append(@, pendingDelay)]
  /\ retry_attempted' = TRUE
  /\ pendingDelay' = 0
  /\ pc' = "gemini_try"
  /\ UNCHANGED <<stageVars, limiter, creds, defaultEnv, enable_cache, plan, prompt, reqModel, provider,
                 model, depth, cascade_models, idx, last_error, exc, result,
                 cache, clock, nCalls, attempts, lastFault,
                 hardAt, rpdRun, rpdCall, rpdBefore, prev>>

(* ---------------------- call_llm: except clause ------------------------ *)
\* the providers the except clause may fall back to
FallbackProviders(available, p) ==
  IF Len(available) > 1 THEN Without(available, p) ELSE <<>>

call_llm_except ==
  /\ pc = "except"
  /\ LET fallback_providers == FallbackProviders(get_available_providers, provider) IN
     IF fallback_providers # <<>>
     THEN IF depth < RecursionLimit
          THEN \* return call_llm(prompt, model, ..., fallback_providers[0])
               /\ provider' = fallback_providers[1]
               /\ depth' = depth + 1
               /\ exc' = NoExc
               /\ pc' = "call_llm"
               /\ UNCHANGED <<model, cascade_models, idx, retry_attempted,
                              last_error, pendingDelay, result>>
          ELSE \* the interpreter refuses one more frame
               FrameDone(Raised(Exc("RecursionError", NoErr)))
     ELSE FrameDone(Raised(exc))
  /\ UNCHANGED <<stageVars, limiter, creds, defaultEnv, enable_cache, plan, prompt, reqModel, cache,
                 clock, nCalls, attempts, tries, lastFault,
                 hardAt, rpdRun, rpdCall, rpdBefore, prev>>

\* time passes between two calls
Tick ==
  /\ pc = "returned"
  /\ nCalls < plan
  /\ clock < MaxClock
  /\ clock' = clock + 1
  /\ UNCHANGED <<stageVars, limiter, creds, defaultEnv, enable_cache, plan, pc, prompt, reqModel,
                 provider, model, depth, cascade_models, idx, retry_attempted,
                 last_error, pendingDelay, exc, result, cache, nCalls,
                 attempts, tries, lastFault, hardAt, rpdRun, rpdCall, rpdBefore, prev>>

(* ====================== the enrichment pipeline ======================== *)
\* largest number of offers in a run
MaxOffers == 2

\* offer identifiers: n stands for "offer_<n>"
OfferIds == 1..MaxOffers

\* create_offer_comparison_flow: the stages behind the offer collection
Stages == <<"MarketResearch", "TaxCalculation", "COLAnalysis",
            "MarketBenchmarking", "PreferenceScoring", "AIAnalysis",
            "VisualizationPreparation", "ReportGeneration">>

\* stages that work offer by offer and merge a result per offer
PerOffer == {"MarketResearch", "TaxCalculation", "COLAnalysis",
             "MarketBenchmarking", "PreferenceScoring", "AIAnalysis"}

\* the stages with concurrent item tasks, were the batch nodes to await each
\* item before starting the next
Concurrent_AIOnly == {"AIAnalysis"}

\* stages whose item tasks run concurrently (AsyncParallelBatchNode, and the
\* asyncio.gather over the recommendation tasks of AIAnalysisNode)
Concurrent == {"MarketResearch", "MarketBenchmarking", "AIAnalysis"}

\* a value computed by a task: for which offer's input (by), of which kind,
\* and which part of the task's output it is
Tok(by, kind, part) == [by |-> by, kind |-> kind, part |-> part]
\* a key the dict does not hold
Missing == Tok(0, "missing", "")
Part(t, part) == Tok(t.by, t.kind, part)

\* an offer as the offer collection leaves it; supplied: the user gave scores
\* and grades. Scores are held in tenths (7.0 is 70).
NewOffer(id, supplied) ==
  [id |-> id,
   company |-> id, position |-> "Engineer", location |-> "Seattle, WA",
   base_salary |-> 70 * id, equity |-> 20 * id, bonus |-> 10 * id,
   total_compensation |-> 100 * id,
   wlb_score |-> IF supplied THEN 90 ELSE 0,
   growth_score |-> IF supplied THEN 40 ELSE 0,
   wlb_grade |-> IF supplied THEN "A" ELSE "",
   growth_grade |-> "",
   benefits_grade |-> IF supplied THEN "B" ELSE "",
   company_research |-> Missing, market_sentiment |-> Missing,
   company_db_data |-> Missing, enriched_data |-> Missing,
   net_pay_analysis |-> Missing, estimated_net_pay |-> Missing,
   estimated_tax |-> Missing,
   expense_analysis |-> Missing, estimated_annual_expenses |-> Missing,
   net_savings |-> Missing,
   market_analysis |-> Missing, total_comp_analysis |-> Missing,
   compensation_insights |-> Missing, ai_market_analysis |-> Missing,
   market_percentile |-> -1, market_median |-> -1,
   score_data |-> Missing,
   ai_recommendation |-> Missing, growth_description |-> Missing,
   growth_points |-> Missing]

Injective(s) == \A i, j \in DOMAIN s : i # j => s[i] # s[j]

\* the stores a run can start from: any offers with pairwise distinct ids,
\* with or without scores and grades given by the user
Stores ==
  UNION {{[i \in 1..n |-> NewOffer(ids[i], supplied)] :
            ids \in {s \in [1..n -> OfferIds] : Injective(s)},
            supplied \in BOOLEAN} : n \in 0..MaxOffers}

map_score_to_grade(score) ==
  LET val == IF score <= 100 THEN score ELSE score \div 10
  IN  IF val >= 90 THEN "A+"
      ELSE IF val >= 80 THEN "A"
      ELSE IF val >= 70 THEN "B+"
      ELSE IF val >= 60 THEN "B"
      ELSE "C"

\* dict.get(key, default) on a dict held as a function
Get(d, key, default) == IF key \in DOMAIN d THEN d[key] ELSE default
NoKeys == [k \in {} |-> 0]

\* the item a stage's prep builds for one offer: its identifier and the
\* offer's own input and fields
Item(offer) ==
  [offer_id |-> offer.id, by |-> offer.id, net_pay |-> offer.estimated_net_pay]

\* a prep that leaves out the offers without a net pay once the tax stage
\* has given one to some offer
prep_SkipsUnpaid(offers) ==
  LET Keep(o) == \/ o.estimated_net_pay # Missing
                 \/ \A i \in DOMAIN offers : offers[i].estimated_net_pay = Missing
      kept == SelectSeq(offers, Keep)
  IN  [i \in DOMAIN kept |-> Item(kept[i])]

prep(offers) == [i \in DOMAIN offers |-> Item(offers[i])]

\* the exceptions call_llm raises to a stage: the aggregated exhaustion of
\* the Gemini cascade, a provider's rate limit and a provider's hard error
ExhaustionFailure ==
  Exc("All Gemini models exhausted",
      ErrOf([status |-> "429", quotaId |-> "PerDay", retryDelay |-> 0],
            "gemini-2.5-flash-lite"))
RateLimitFailure ==
  Exc("OpenAI API error",
      ErrOf([status |-> "429", quotaId |-> "", retryDelay |-> 0], "gpt-4o"))
HardFailure ==
  Exc("Gemini API error",
      ErrOf([status |-> "500", quotaId |-> "", retryDelay |-> 0],
            "gemini-3-flash-preview"))
CallFailures == {ExhaustionFailure, RateLimitFailure, HardFailure}

\* stages whose item tasks call a provider
Calling == {"MarketResearch", "MarketBenchmarking", "AIAnalysis"}

\* calculate_offer_score multiplies the scores of the research metrics, which
\* are the model's reply as parsed: a score that is not a number raises
ScoringFailure == Exc("TypeError", NoErr)

\* what an item task of the stage can end in: its external calls, or in the
\* scoring its arithmetic on the research metrics
Endings(stage) ==
  IF stage \in Calling THEN {NoExc} \cup CallFailures
  ELSE IF stage = "PreferenceScoring" THEN {NoExc, ScoringFailure}
  ELSE {NoExc}

\* any(k in error_str ...) with keywords that every failure's text holds
quota_hit_AnyFailure(e) == e.type # ""

\* any(k in error_str ...) without the keyword "exhausted": only a provider's
\* own rate limit is recognised
quota_hit_RateLimitOnly(e) ==
  e.type # "All Gemini models exhausted" /\ is_rate_limit(e.cause)

\* any(k in error_str for k in ["429", "quota", "resource_exhausted",
\* "exhausted", "limit"]) on str(e).lower()
quota_hit(e) == e.type = "All Gemini models exhausted" \/ is_rate_limit(e.cause)

\* the kinds of result an item task of the stage can return when its
\* external calls ended in e (none: the task raises e)
Outcomes(stage, item, e) ==
  CASE stage = "MarketResearch" ->
         IF e = NoExc THEN {"db", "nodb", "unscored"}
         ELSE IF quota_hit(e) THEN {"mock"} ELSE {}
    [] stage = "TaxCalculation" -> {"real"}
    [] stage = "COLAnalysis" ->
         {IF item.net_pay = Missing THEN "no_net_pay" ELSE "real"}
    [] stage = "MarketBenchmarking" ->
         IF e = NoExc THEN {"real"}
         ELSE IF quota_hit(e) THEN {"mock"} ELSE {}
    [] stage = "PreferenceScoring" -> IF e = NoExc THEN {"real"} ELSE {}
    [] stage = "AIAnalysis" ->
         IF e = NoExc THEN {"real"}
         ELSE IF quota_hit(e) THEN {"mock"} ELSE {"fallback"}

\* stages whose item task re-raises what is not a quota error, or catches
\* nothing
Raising == {"MarketResearch", "MarketBenchmarking", "PreferenceScoring"}

\* the result of an item task
exec(item, kind) == [offer_id |-> item.offer_id, by |-> item.by, kind |-> kind]
Pending == [offer_id |-> 0, by |-> 0, kind |-> "pending"]

\* the results in the order the tasks completed in, each paired with the
\* identifier of the offer at its position
gather_AsCompleted(res) ==
  [i \in DOMAIN items |->
     IF i \in DOMAIN completed
     THEN [res[completed[i]] EXCEPT !.offer_id = items[i].offer_id]
     ELSE res[i]]

\* asyncio.gather / the batch loop: results in the order of the items
gather(res) == [i \in DOMAIN items |-> res[i]]

NoSkip == [node |-> 0, item |-> 0]

\* the list the post of the stage in progress is given: the results of the
\* tasks that yielded one, in the order of the items
handed(res) ==
  IF skipped.node = node
  THEN SubSeq(gather(res), 1, skipped.item - 1)
         \o SubSeq(gather(res), skipped.item + 1, Len(items))
  ELSE gather(res)

Max(S) == CHOOSE x \in S : \A y \in S : y <= x

\* {r["offer_id"]: r for r in exec_res_list} keyed by the position in the list
lookup_ByPosition(L) == [id \in DOMAIN L |-> L[id]]

\* {r["offer_id"]: r for r in exec_res_list}: the last result of an id wins
lookup(L) ==
  [id \in {L[j].offer_id : j \in DOMAIN L} |->
     L[Max({j \in DOMAIN L : L[j].offer_id = id})]]

\* research_data["company_research"].get("metrics", {}): the scores the
\* research carries: those of the model's reply, the default scores that
\* research_company puts in their place when the metrics call or its parsing
\* fails ("unscored"), none in the mock research
metrics(r) ==
  IF r.kind \in {"db", "nodb"}
  THEN [wlb_score |-> 60, growth_score |-> 95]
  ELSE IF r.kind = "unscored"
  THEN [wlb_score |-> 70, growth_score |-> 70, benefits_score |-> 70]
  ELSE NoKeys

\* company_db_data.get("culture_metrics", {}) if company_db_data else {}
culture_metrics(r) ==
  IF r.kind = "db"
  THEN [work_life_balance |-> 85, career_growth |-> 90, benefits_quality |-> 75]
  ELSE NoKeys

\* MarketResearchNode.post_async with the database ahead of the user: the
\* scores and grades of the result are written whatever the offer holds
research_update_DatabaseFirst(offer, r) ==
  LET db_wlb == Get(culture_metrics(r), "work_life_balance",
                    Get(metrics(r), "wlb_score", 70))
      db_growth == Get(culture_metrics(r), "career_growth",
                       Get(metrics(r), "growth_score", 70))
      db_benefits == Get(culture_metrics(r), "benefits_quality",
                         Get(metrics(r), "benefits_score", 70))
  IN  [offer EXCEPT
         !.company_research = Tok(r.by, r.kind, "company_research"),
         !.market_sentiment = Tok(r.by, r.kind, "market_sentiment"),
         !.company_db_data = Tok(r.by, r.kind, "company_db_data"),
         !.enriched_data = Tok(r.by, r.kind, "enriched_data"),
         !.wlb_score = db_wlb,
         !.growth_score = db_growth,
         !.wlb_grade = map_score_to_grade(db_wlb),
         !.growth_grade = map_score_to_grade(db_growth),
         !.benefits_grade = map_score_to_grade(db_benefits)]

\* MarketResearchNode.post_async with the grades set before the scores
research_update_GradesFirst(offer, r) ==
  LET db_wlb == Get(culture_metrics(r), "work_life_balance",
                    Get(metrics(r), "wlb_score", 70))
      db_growth == Get(culture_metrics(r), "career_growth",
                       Get(metrics(r), "growth_score", 70))
      db_benefits == Get(culture_metrics(r), "benefits_quality",
                         Get(metrics(r), "benefits_score", 70))
  IN  [offer EXCEPT
         !.company_research = Tok(r.by, r.kind, "company_research"),
         !.market_sentiment = Tok(r.by, r.kind, "market_sentiment"),
         !.company_db_data = Tok(r.by, r.kind, "company_db_data"),
         !.enriched_data = Tok(r.by, r.kind, "enriched_data"),
         !.wlb_score = IF offer.wlb_score = 0 THEN db_wlb ELSE offer.wlb_score,
         !.growth_score = IF offer.growth_score = 0 THEN db_growth
                          ELSE offer.growth_score,
         !.wlb_grade = IF offer.wlb_grade = "" /\ offer.wlb_score # 0
                       THEN map_score_to_grade(offer.wlb_score)
                       ELSE offer.wlb_grade,
         !.growth_grade = IF offer.growth_grade = "" /\ offer.growth_score # 0
                          THEN map_score_to_grade(offer.growth_score)
                          ELSE offer.growth_grade,
         !.benefits_grade = IF offer.benefits_grade = ""
                            THEN map_score_to_grade(db_benefits)
                            ELSE offer.benefits_grade]

\* MarketResearchNode.post_async, for one offer and its result
research_update(offer, r) ==
  LET db_wlb == Get(culture_metrics(r), "work_life_balance",
                    Get(metrics(r), "wlb_score", 70))
      db_growth == Get(culture_metrics(r), "career_growth",
                       Get(metrics(r), "growth_score", 70))
      db_benefits == Get(culture_metrics(r), "benefits_quality",
                         Get(metrics(r), "benefits_score", 70))
      wlb == IF offer.wlb_score = 0 THEN db_wlb ELSE offer.wlb_score
      growth == IF offer.growth_score = 0 THEN db_growth ELSE offer.growth_score
  IN  [offer EXCEPT
         !.company_research = Tok(r.by, r.kind, "company_research"),
         !.market_sentiment = Tok(r.by, r.kind, "market_sentiment"),
         !.company_db_data = Tok(r.by, r.kind, "company_db_data"),
         !.enriched_data = Tok(r.by, r.kind, "enriched_data"),
         !.wlb_score = wlb,
         !.growth_score = growth,
         !.wlb_grade = IF offer.wlb_grade = "" /\ wlb # 0
                       THEN map_score_to_grade(wlb) ELSE offer.wlb_grade,
         !.growth_grade = IF offer.growth_grade = "" /\ growth # 0
                          THEN map_score_to_grade(growth) ELSE offer.growth_grade,
         !.benefits_grade = IF offer.benefits_grade = ""
                            THEN map_score_to_grade(db_benefits)
                            ELSE offer.benefits_grade]

\* TaxCalculationNode.post, for one offer and its result
tax_update(offer, r) ==
  LET net_pay_analysis == Tok(r.by, r.kind, "net_pay_analysis")
  IN  [offer EXCEPT
         !.net_pay_analysis = net_pay_analysis,
         !.estimated_net_pay = Part(net_pay_analysis, "estimated_net_pay"),
         !.estimated_tax = Part(net_pay_analysis, "estimated_tax_amount")]

\* COLAnalysisNode.post, for one offer and its result
col_update(offer, r) ==
  LET expense_analysis == Tok(r.by, "real", "expense_analysis")
  IN  [offer EXCEPT
         !.expense_analysis = expense_analysis,
         !.estimated_annual_expenses =
             Part(expense_analysis, "estimated_annual_expenses"),
         !.net_savings = Tok(r.by, r.kind, "net_savings")]

\* total_p.get("market_percentile", 50) of the percentile a task computed
market_percentile(t) == IF t.kind = "real" THEN 50 + 10 * t.by ELSE 50

\* MarketBenchmarkingNode.post_async putting the market median in the place
\* of the offer's total compensation
benchmark_update_Repriced(offer, r) ==
  LET total_p == Tok(r.by, r.kind, "total_percentile")
  IN  [offer EXCEPT
         !.market_analysis = Tok(r.by, r.kind, "base_percentile"),
         !.total_comp_analysis = total_p,
         !.compensation_insights = Tok(r.by, r.kind, "compensation_insights"),
         !.ai_market_analysis = Tok(r.by, r.kind, "ai_analysis"),
         !.market_percentile = market_percentile(total_p),
         !.total_compensation = IF r.kind = "real" THEN 80 * r.by
                                ELSE (offer.total_compensation * 9) \div 10]

\* MarketBenchmarkingNode.post_async, for one offer and its result
benchmark_update(offer, r) ==
  LET total_p == Tok(r.by, r.kind, "total_percentile")
  IN  [offer EXCEPT
         !.market_analysis = Tok(r.by, r.kind, "base_percentile"),
         !.total_comp_analysis = total_p,
         !.compensation_insights = Tok(r.by, r.kind, "compensation_insights"),
         !.ai_market_analysis = Tok(r.by, r.kind, "ai_analysis"),
         !.market_percentile = market_percentile(total_p),
         !.market_median = IF r.kind = "real" THEN 80 * r.by
                           ELSE (offer.total_compensation * 9) \div 10]

\* PreferenceScoringNode.post, for one offer and its result
score_update(offer, r) ==
  [offer EXCEPT !.score_data = Tok(r.by, r.kind, "score_data")]

\* AIAnalysisNode.post_async, for one offer and its recommendation
recommendation_update(offer, r) ==
  LET rec == Tok(r.by, r.kind, "recommendation")
      \* rec.get(key): None for the fixed "Analysis Failed" structure, which
      \* has no growth content
      get(key) == IF r.kind = "fallback" THEN Missing ELSE Part(rec, key)
  IN  [offer EXCEPT
         !.ai_recommendation = rec,
         !.growth_description = get("growth_description"),
         !.growth_points = get("growth_points")]

\* the same wording, with the mock data of the benchmarking written without
\* any note
written_text_NoBenchmarkNote(t) ==
  CASE t.kind = "mock" /\ t.part \in {"company_research", "market_sentiment"} ->
         "Mock"
    [] t.kind = "mock" /\ t.part = "recommendation" -> "Mock Analysis"
    [] t.kind = "fallback" /\ t.part = "recommendation" -> "Analysis Failed"
    [] t.kind = "unscored" /\ t.part = "company_research" ->
         "Analysis not available"
    [] OTHER -> ""

\* the wording of the code's own that a stored value holds, as the except
\* clauses of the item tasks and of research_company write it (none in a value
\* that was computed or is a reply of the model)
written_text(t) ==
  CASE t.kind = "mock" /\ t.part = "company_research" -> "Mock research"
    [] t.kind = "mock" /\ t.part = "market_sentiment" -> "Positive (Mock)"
    [] t.kind = "mock" /\ t.part = "compensation_insights" ->
         "Mock compensation insights (Quota reached)"
    [] t.kind = "mock" /\ t.part = "ai_analysis" ->
         "Market analysis placeholder (Quota hit)"
    [] t.kind = "mock" /\ t.part = "recommendation" -> "Mock Analysis"
    [] t.kind = "fallback" /\ t.part = "recommendation" -> "Analysis Failed"
    [] t.kind = "unscored" /\ t.part = "company_research" ->
         "Analysis not available"
    [] OTHER -> ""

\* the loop body of the stage's post, for one offer and its result
update(stage, offer, r) ==
  CASE stage = "MarketResearch" -> research_update(offer, r)
    [] stage = "TaxCalculation" -> tax_update(offer, r)
    [] stage = "COLAnalysis" -> col_update(offer, r)
    [] stage = "MarketBenchmarking" -> benchmark_update(offer, r)
    [] stage = "PreferenceScoring" -> score_update(offer, r)
    [] stage = "AIAnalysis" -> recommendation_update(offer, r)

\* the store rebuilt from the offers of the tasks in the order they completed
post_AsCompleted(stage, offers, L) ==
  [j \in DOMAIN completed |->
     LET offer == offers[completed[j]]
     IN  IF offer.id \in DOMAIN lookup(L)
         THEN update(stage, offer, lookup(L)[offer.id]) ELSE offer]

\* the offers of the store after the stage's merge of the list L:
\* for offer in shared["offers"]: if offer["id"] in lookup: ... (in place)
post(stage, offers, L) ==
  [i \in DOMAIN offers |->
     IF offers[i].id \in DOMAIN lookup(L)
     THEN update(stage, offers[i], lookup(L)[offers[i].id]) ELSE offers[i]]

\* calculate_offer_score: the compensation factors of the weighted sum, read
\* from the offer's market analysis (the other factors are held equal)
total_score(offer) ==
  (IF offer.market_analysis = Missing THEN 50
   ELSE market_percentile(offer.market_analysis))
  + (IF offer.total_comp_analysis = Missing THEN 50
     ELSE market_percentile(offer.total_comp_analysis))

\* the sort without reverse=True: lowest score first
InsertDesc_Ascending(s, e) ==
  LET n == Cardinality({j \in DOMAIN s : s[j].total_score <= e.total_score})
  IN  SubSeq(s, 1, n) \o <<e>> \o SubSeq(s, n + 1, Len(s))

\* list.sort(key=total_score, reverse=True): stable, one element at a time
InsertDesc(s, e) ==
  LET n == Cardinality({j \in DOMAIN s : s[j].total_score >= e.total_score})
  IN  SubSeq(s, 1, n) \o <<e>> \o SubSeq(s, n + 1, Len(s))

RECURSIVE SortDesc(_)
SortDesc(s) ==
  IF s = <<>> THEN <<>>
  ELSE InsertDesc(SortDesc(SubSeq(s, 1, Len(s) - 1)), s[Len(s)])

\* compare_offers(...)["ranked_offers"]; offer_data is a reference to the
\* offer, held as the offer's position in the store
compare_offers(offers_data) ==
  LET scored_offers ==
        [i \in DOMAIN offers_data |->
           [offer_id |-> offers_data[i].id,
            total_score |-> total_score(offers_data[i]),
            rank |-> 0,
            ai_recommendation |-> Missing,
            offer_data |-> i]]
      sorted == SortDesc(scored_offers)
  IN  [i \in DOMAIN sorted |-> [sorted[i] EXCEPT !.rank = i]]

\* compare_offers(...)["top_offer"]: scored_offers[0] if scored_offers else None
top_offer(scored_offers) ==
  IF scored_offers # <<>> THEN scored_offers[1] ELSE None

\* offer_lookup = {offer["id"]: offer for offer in shared.get("offers", [])}
offer_lookup(offers) ==
  [id \in {offers[i].id : i \in DOMAIN offers} |->
     Max({i \in DOMAIN offers : offers[i].id = id})]

\* the ranked offers pointed at the store offer at their place in the ranking
sync_offer_data_ByRank(ranked_offers, offers) ==
  [k \in DOMAIN ranked_offers |->
     IF ranked_offers[k].offer_id \in DOMAIN offer_lookup(offers)
     THEN [ranked_offers[k] EXCEPT !.offer_data = k]
     ELSE ranked_offers[k]]

\* AIAnalysisNode.post_async: ranked_offer["offer_data"] = offer_obj
sync_offer_data(ranked_offers, offers) ==
  [k \in DOMAIN ranked_offers |->
     IF ranked_offers[k].offer_id \in DOMAIN offer_lookup(offers)
     THEN [ranked_offers[k] EXCEPT
             !.offer_data = offer_lookup(offers)[ranked_offers[k].offer_id]]
     ELSE ranked_offers[k]]

\* AIAnalysisNode.post_async: the ranked offers take the recommendations
sync_ranked(ranked_offers, L) ==
  [i \in DOMAIN ranked_offers |->
     IF ranked_offers[i].offer_id \in DOMAIN lookup(L)
     THEN [ranked_offers[i] EXCEPT !.ai_recommendation =
             Tok(lookup(L)[ranked_offers[i].offer_id].by,
                 lookup(L)[ranked_offers[i].offer_id].kind, "recommendation")]
     ELSE ranked_offers[i]]

(* ------------------- the level lookup of an item task ------------------ *)
\* every offer's company and level are in COMPANY_LEVEL_MAP; no cache file
StaticLevels == [static |-> TRUE, file |-> <<>>]

\* cache_key = f"{company_clean}:{pillar}:{level_clean}" of an item
cache_key(item) == item.offer_id

\* the universal levels an inference gives, and None
LevelValues == {3, 4}
NoLevel == 0

\* cache[cache_key] = res on a dict held as a function
SetItem(d, key, value) ==
  [k \in DOMAIN d \cup {key} |-> IF k = key THEN value ELSE d[k]]

\* get_universal_level_async at its start: with the static mapping it returns
\* the mapped level at once, without it the cache and the inference are to
\* come; seen is the call's copy of the cache file, res what it returns and
\* called whether it has asked the model
NewLookup(key) ==
  [key |-> key,
   at |-> IF levels.static THEN "static" ELSE "todo",
   seen |-> <<>>,
   res |-> IF levels.static THEN 5 ELSE NoLevel,
   called |-> FALSE]

\* cache = _load_cache(); if cache_key in cache: return cache[cache_key]
level_load(i) ==
  /\ i \in DOMAIN lookups
  /\ lookups[i].at = "todo"
  /\ lookups' = [lookups EXCEPT ![i] =
                   IF lookups[i].key \in DOMAIN levels.file
                   THEN [@ EXCEPT !.at = "done", !.seen = levels.file,
                                  !.res = levels.file[lookups[i].key]]
                   ELSE [@ EXCEPT !.at = "loaded", !.seen = levels.file]]
  /\ UNCHANGED <<callVars, limiter, request, levels, shared, before, node, phase, items,
                 completed, exec_res, exec_res_list, ended, raised, skipped>>

\* level_infer that stores whatever the inference gave, None included
level_infer_StoresNone(i, res) ==
  /\ i \in DOMAIN lookups
  /\ lookups[i].at = "loaded"
  /\ levels' = [levels EXCEPT !.file = SetItem(lookups[i].seen, lookups[i].key, res)]
  /\ lookups' = [lookups EXCEPT ![i].at = "done", ![i].res = res,
                                ![i].called = TRUE]
  /\ UNCHANGED <<callVars, limiter, request, shared, before, node, phase, items,
                 completed, exec_res, exec_res_list, ended, raised, skipped>>

\* res = await infer_level_async(...); if res: cache[cache_key] = res;
\* _save_cache(cache): the call's copy, with its own key, replaces the file
level_infer(i, res) ==
  /\ i \in DOMAIN lookups
  /\ lookups[i].at = "loaded"
  /\ levels' = IF res # NoLevel
               THEN [levels EXCEPT !.file = SetItem(lookups[i].seen, lookups[i].key, res)]
               ELSE levels
  /\ lookups' = [lookups EXCEPT ![i].at = "done", ![i].res = res,
                                ![i].called = TRUE]
  /\ UNCHANGED <<callVars, limiter, request, shared, before, node, phase, items,
                 completed, exec_res, exec_res_list, ended, raised, skipped>>

\* a run starts from any store the offer collection can leave
InitStage ==
  /\ creds = {}
  /\ defaultEnv = ""
  /\ enable_cache = FALSE
  /\ plan = 0
  /\ Fresh
  /\ shared \in {[EmptyShared EXCEPT !.offers = s] : s \in Stores}
  /\ before = <<>>
  /\ node = 0
  /\ phase = "idle"
  /\ items = <<>>
  /\ completed = <<>>
  /\ exec_res = <<>>
  /\ exec_res_list = <<>>
  /\ ended = <<>>
  /\ raised = NoExc
  /\ skipped = NoSkip
  /\ request = <<>>
  /\ levels = StaticLevels
  /\ lookups = <<>>
  /\ limiter = NoLimiter

\* the next stage's prep, started without waiting for the merge of the stage
\* in progress
stage_prep_Early ==
  /\ phase \in {"idle", "merged", "exec"}
  /\ node < Len(Stages)
  /\ node' = node + 1
  /\ phase' = "exec"
  /\ before' = shared.offers
  /\ items' = IF Stages[node + 1] \in PerOffer THEN prep(shared.offers) ELSE <<>>
  /\ completed' = <<>>
  /\ exec_res' = [i \in DOMAIN items' |-> Pending]
  /\ ended' = [i \in DOMAIN items' |-> NoExc]
  /\ lookups' = IF Stages[node + 1] = "MarketBenchmarking"
                THEN [i \in DOMAIN items' |-> NewLookup(cache_key(items'[i]))]
                ELSE <<>>
  /\ UNCHANGED <<callVars, limiter, request, levels, shared, exec_res_list, raised, skipped>>

\* the flow runs the next stage's prep once the previous stage has merged
stage_prep ==
  /\ phase \in {"idle", "merged"}
  /\ node < Len(Stages)
  /\ node' = node + 1
  /\ phase' = "exec"
  /\ before' = shared.offers
  /\ items' = IF Stages[node + 1] \in PerOffer THEN prep(shared.offers) ELSE <<>>
  /\ completed' = <<>>
  /\ exec_res' = [i \in DOMAIN items' |-> Pending]
  /\ ended' = [i \in DOMAIN items' |-> NoExc]
  /\ lookups' = IF Stages[node + 1] = "MarketBenchmarking"
                THEN [i \in DOMAIN items' |-> NewLookup(cache_key(items'[i]))]
                ELSE <<>>
  /\ UNCHANGED <<callVars, limiter, request, levels, shared, exec_res_list, raised, skipped>>

\* item task i of the stage in progress, whose external calls ended in e,
\* returns a result of the given kind: in any order in a concurrent stage, in
\* input order in a batch stage
task_returns(i, kind, e) ==
  /\ phase = "exec"
  /\ i \in DOMAIN items
  /\ \A j \in DOMAIN completed : completed[j] # i
  /\ Stages[node] \in Concurrent \/ i = Len(completed) + 1
  /\ i \in DOMAIN lookups => lookups[i].at \in {"static", "done"}
  /\ e \in Endings(Stages[node])
  /\ kind \in Outcomes(Stages[node], items[i], e)
  /\ exec_res' = [exec_res EXCEPT ![i] = exec(items[i], kind)]
  /\ ended' = [ended EXCEPT ![i] = e]
  /\ completed' = Append(completed, i)
  /\ UNCHANGED <<callVars, limiter, request, levels, lookups, shared, before, node, phase, items, exec_res_list,
                 raised, skipped>>

\* the external calls of item task i end in an exception its except clause
\* raises again: the exception leaves the gather, the stage and the flow
task_raises(i, e) ==
  /\ phase = "exec"
  /\ Stages[node] \in Raising
  /\ i \in DOMAIN items
  /\ \A j \in DOMAIN completed : completed[j] # i
  /\ Stages[node] \in Concurrent \/ i = Len(completed) + 1
  /\ e \in Endings(Stages[node])
  /\ e # NoExc
  /\ Outcomes(Stages[node], items[i], e) = {}
  /\ ended' = [ended EXCEPT ![i] = e]
  /\ raised' = e
  /\ phase' = "raised"
  /\ UNCHANGED <<callVars, limiter, request, levels, lookups, shared, before, node, items, completed, exec_res,
                 exec_res_list, skipped>>

\* every item task has returned: the stage's post gets the list of results
Joined == phase = "exec" /\ Len(completed) = Len(items)

\* post of MarketResearchNode, TaxCalculationNode, COLAnalysisNode and
\* MarketBenchmarkingNode
enrich_post ==
  /\ Joined
  /\ Stages[node] \in {"MarketResearch", "TaxCalculation", "COLAnalysis",
                       "MarketBenchmarking"}
  /\ shared' = [shared EXCEPT
                  !.offers = post(Stages[node], shared.offers, handed(exec_res))]
  /\ exec_res_list' = handed(exec_res)
  /\ phase' = "merged"
  /\ UNCHANGED <<callVars, limiter, request, levels, lookups, before, node, items, completed, exec_res, ended,
                 raised, skipped>>

PreferenceScoringNode_post ==
  /\ Joined
  /\ Stages[node] = "PreferenceScoring"
  /\ \E offers \in {post(Stages[node], shared.offers, handed(exec_res))} :
       shared' = [shared EXCEPT
                    !.offers = offers,
                    !.has_comparison = TRUE,
                    !.ranked_offers = compare_offers(offers),
                    !.scoring_weights = "weights"]
  /\ exec_res_list' = handed(exec_res)
  /\ phase' = "merged"
  /\ UNCHANGED <<callVars, limiter, request, levels, lookups, before, node, items, completed, exec_res, ended,
                 raised, skipped>>

\* the analysis and the decision framework of the whole comparison are
\* stored as exec_res carries them (a provider's text or the fixed text)
AIAnalysisNode_post_async ==
  /\ Joined
  /\ Stages[node] = "AIAnalysis"
  /\ shared' = [shared EXCEPT
                  !.offers = post(Stages[node], shared.offers, handed(exec_res)),
                  !.ranked_offers =
                     IF shared.has_comparison
                     THEN sync_ranked(sync_offer_data(shared.ranked_offers,
                                                      shared.offers),
                                      handed(exec_res))
                     ELSE shared.ranked_offers,
                  !.ai_analysis = "comprehensive_analysis",
                  !.decision_framework = "decision_framework"]
  /\ exec_res_list' = handed(exec_res)
  /\ phase' = "merged"
  /\ UNCHANGED <<callVars, limiter, request, levels, lookups, before, node, items, completed, exec_res, ended,
                 raised, skipped>>

\* create_visualization_package(ranked_offers, scoring_weights): its
\* summary_stats, or the error entry when there is no ranked offer
create_visualization_package(ranked_offers) ==
  IF ranked_offers = <<>> THEN <<"error">>
  ELSE <<"summary_stats", Len(ranked_offers), ranked_offers[1].offer_id>>

\* VisualizationPreparationNode: prep, exec and post
VisualizationPreparationNode_post ==
  /\ Joined
  /\ Stages[node] = "VisualizationPreparation"
  /\ shared' = [shared EXCEPT
                  !.visualization_data =
                     create_visualization_package(shared.ranked_offers)]
  /\ exec_res_list' = <<>>
  /\ phase' = "merged"
  /\ UNCHANGED <<callVars, limiter, request, levels, lookups, before, node, items, completed, exec_res, ended,
                 raised, skipped>>

\* _generate_structured_report: the rankings, each with the recommendation
\* of the offer that has the ranking's identifier
offer_rankings(offers, ranked_offers) ==
  [k \in DOMAIN ranked_offers |->
     [offer_id |-> ranked_offers[k].offer_id,
      rank |-> ranked_offers[k].rank,
      ai_recommendation |->
        IF \E i \in DOMAIN offers : offers[i].id = ranked_offers[k].offer_id
        THEN offers[CHOOSE i \in DOMAIN offers :
                      /\ offers[i].id = ranked_offers[k].offer_id
                      /\ \A j \in 1..(i - 1) :
                           offers[j].id # ranked_offers[k].offer_id].ai_recommendation
        ELSE Missing]]

\* ReportGenerationNode: prep, exec and post
ReportGenerationNode_post ==
  /\ Joined
  /\ Stages[node] = "ReportGeneration"
  /\ shared' = [shared EXCEPT
                  !.final_report =
                     offer_rankings(shared.offers, shared.ranked_offers)]
  /\ exec_res_list' = <<>>
  /\ phase' = "merged"
  /\ UNCHANGED <<callVars, limiter, request, levels, lookups, before, node, items, completed, exec_res, ended,
                 raised, skipped>>

(* ----------------------- post, called directly ------------------------- *)
\* a result dict without the key "offer_id"
NoOfferId == -1
\* an identifier no offer of the store has
UnknownId == MaxOffers + 1

\* the result lists a caller can hand to the post of a stage: each result is
\* of an offer of the store, of an unknown offer, or has no identifier
Results(stage) ==
  {[offer_id |-> id,
    by |-> IF id \in OfferIds THEN id ELSE 1,
    kind |-> IF stage = "MarketResearch" THEN "db" ELSE "real"] :
     id \in OfferIds \cup {UnknownId, NoOfferId}}
ResultLists(stage) ==
  {<<r>> : r \in Results(stage)}
    \cup {<<r1, r2>> : r1 \in Results(stage), r2 \in Results(stage)}

\* r["offer_id"] in the dict comprehension of the post raises KeyError;
\* MarketResearchNode and MarketBenchmarkingNode read r.get("offer_id")
KeyErrorIn(stage, L) ==
  /\ stage \notin {"MarketResearch", "MarketBenchmarking"}
  /\ \E j \in DOMAIN L : L[j].offer_id = NoOfferId

\* the store after the post of the stage, given the list L
StoreAfter(stage, L) ==
  CASE stage = "PreferenceScoring" ->
         LET offers == post(stage, shared.offers, L)
         IN  [shared EXCEPT
                !.offers = offers,
                !.has_comparison = TRUE,
                !.ranked_offers = compare_offers(offers),
                !.scoring_weights = "weights"]
    [] stage = "AIAnalysis" ->
         [shared EXCEPT
            !.offers = post(stage, shared.offers, L),
            !.ranked_offers =
               IF shared.has_comparison
               THEN sync_ranked(sync_offer_data(shared.ranked_offers,
                                                shared.offers), L)
               ELSE shared.ranked_offers,
            !.ai_analysis = "comprehensive_analysis",
            !.decision_framework = "decision_framework"]
    [] OTHER -> [shared EXCEPT !.offers = post(stage, shared.offers, L)]

\* the post of a stage is called with a result list, as a test calls it
post_called(n, L) ==
  /\ phase = "idle"
  /\ node = 0
  /\ n \in DOMAIN Stages
  /\ Stages[n] \in PerOffer
  /\ L \in ResultLists(Stages[n])
  /\ node' = n
  /\ before' = shared.offers
  /\ exec_res_list' = L
  /\ IF KeyErrorIn(Stages[n], L)
     THEN /\ raised' = Exc("KeyError", NoErr)
          /\ phase' = "post_raised"
          /\ UNCHANGED shared
     ELSE /\ shared' = StoreAfter(Stages[n], L)
          /\ phase' = "post_merged"
          /\ UNCHANGED raised
  /\ UNCHANGED <<callVars, limiter, request, levels, lookups, items, completed, exec_res, ended, skipped>>

MergeNext ==
  \E n \in DOMAIN Stages : \E L \in ResultLists("TaxCalculation")
                              \cup ResultLists("MarketResearch") :
     post_called(n, L)

SpecMerge == InitStage /\ [][MergeNext]_vars

(* ------------------------ QuickAIAnalysisNode -------------------------- *)
\* for offer in offers: if not offer.get("score_data"): offer["score_data"] =
\* calculate_offer_score(...), on the offer dicts of the store
quick_scores(offers) ==
  [i \in DOMAIN offers |->
     IF offers[i].score_data = Missing
     THEN [offers[i] EXCEPT !.score_data = Tok(offers[i].id, "real", "score_data")]
     ELSE offers[i]]

\* prep_async of the quick analysis stage, run on the offers of a request
\* (the endpoint refuses an empty list)
QuickAIAnalysisNode_prep_async ==
  /\ phase = "idle"
  /\ node = 0
  /\ shared.offers # <<>>
  /\ phase' = "quick_exec"
  /\ before' = shared.offers
  /\ items' = prep(shared.offers)
  /\ completed' = <<>>
  /\ exec_res' = [i \in DOMAIN shared.offers |-> Pending]
  /\ ended' = [i \in DOMAIN shared.offers |-> NoExc]
  /\ UNCHANGED <<callVars, limiter, request, levels, lookups, shared, node, exec_res_list, raised, skipped>>

\* exec_async: the scores are written to the offers, then the one structured
\* call is made; a quota error gives the fallback analysis, any other error
\* is raised again
QuickAIAnalysisNode_exec_async(e) ==
  /\ phase = "quick_exec"
  /\ shared' = [shared EXCEPT !.offers = quick_scores(shared.offers)]
  /\ ended' = [i \in DOMAIN items |-> e]
  /\ IF e # NoExc /\ ~quota_hit(e)
     THEN /\ raised' = e
          /\ phase' = "quick_raised"
          /\ UNCHANGED <<exec_res, completed>>
     ELSE /\ exec_res' = [i \in DOMAIN items |->
                            exec(items[i], IF e = NoExc THEN "real" ELSE "mock")]
          /\ completed' = [i \in DOMAIN items |-> i]
          /\ phase' = "quick_done"
          /\ UNCHANGED raised
  /\ UNCHANGED <<callVars, limiter, request, levels, lookups, before, node, items, exec_res_list, skipped>>

\* post_async: recommendations to the offers, comparison results to the store
QuickAIAnalysisNode_post_async ==
  /\ phase = "quick_done"
  /\ LET offers == post("AIAnalysis", shared.offers, exec_res)
     IN  shared' = [shared EXCEPT
                      !.offers = offers,
                      !.has_comparison = TRUE,
                      !.ranked_offers = sync_ranked(compare_offers(shared.offers),
                                                    exec_res),
                      !.scoring_weights = "weights"]
  /\ exec_res_list' = exec_res
  /\ phase' = "quick_merged"
  /\ UNCHANGED <<callVars, limiter, request, levels, lookups, before, node, items, completed, exec_res, ended,
                 raised, skipped>>

StageNext ==
  \/ stage_prep
  \/ \E i \in OfferIds, e \in {NoExc} \cup CallFailures,
        kind \in {"db", "nodb", "unscored", "mock", "real", "no_net_pay",
                  "fallback"} :
          task_returns(i, kind, e)
  \/ \E i \in OfferIds, e \in CallFailures \cup {ScoringFailure} :
       task_raises(i, e)
  \/ enrich_post
  \/ PreferenceScoringNode_post
  \/ AIAnalysisNode_post_async
  \/ VisualizationPreparationNode_post
  \/ ReportGenerationNode_post
  \/ QuickAIAnalysisNode_prep_async
  \/ \E e \in {NoExc} \cup CallFailures : QuickAIAnalysisNode_exec_async(e)
  \/ QuickAIAnalysisNode_post_async

SpecStage == InitStage /\ [][StageNext]_vars

(* ---------------- a stage that yields no result for an offer ----------- *)
\* the exec of the stage in progress, replaced as a test patches it, yields
\* no result for item i; this happens for one item of one stage of a run
task_yields_nothing(i) ==
  /\ phase = "exec"
  /\ skipped = NoSkip
  /\ Len(items) > 1
  /\ i \in DOMAIN items
  /\ \A j \in DOMAIN completed : completed[j] # i
  /\ Stages[node] \in Concurrent \/ i = Len(completed) + 1
  /\ skipped' = [node |-> node, item |-> i]
  /\ completed' = Append(completed, i)
  /\ UNCHANGED <<callVars, limiter, request, levels, lookups, shared, before, node, phase, items, exec_res,
                 exec_res_list, ended, raised>>

PartialNext ==
  \/ StageNext
  \/ \E i \in OfferIds : task_yields_nothing(i)

\* the flow with at most one missing result
SpecPartial == InitStage /\ [][PartialNext]_vars

(* ------------------------ the request to analyze ----------------------- *)
\* Offer.id: Optional[str] = None, an offer sent without an id
NoId == 0

\* the ids a client can send: none, "offer_<n>", or any other string (held as
\* UnknownId)
ClientIds == {NoId} \cup OfferIds \cup {UnknownId}

\* req.offers: any list of offers, each with or without an id, all with or
\* all without scores and grades
Requests ==
  UNION {{[i \in 1..n |-> [id |-> ids[i], supplied |-> supplied]] :
            ids \in [1..n -> ClientIds], supplied \in BOOLEAN} :
         n \in 0..MaxOffers}

\* data["id"] = data.get("id") or f"offer_{i}", with i counted from 1
offers_of(req) ==
  [i \in DOMAIN req |->
     NewOffer(IF req[i].id = NoId THEN i ELSE req[i].id, req[i].supplied)]

\* a request to analyze has arrived and no run is in progress
InitAnalyze ==
  /\ creds = {}
  /\ defaultEnv = ""
  /\ enable_cache = FALSE
  /\ plan = 0
  /\ Fresh
  /\ shared = EmptyShared
  /\ before = <<>>
  /\ node = 0
  /\ phase = "request"
  /\ items = <<>>
  /\ completed = <<>>
  /\ exec_res = <<>>
  /\ exec_res_list = <<>>
  /\ ended = <<>>
  /\ raised = NoExc
  /\ skipped = NoSkip
  /\ request \in Requests
  /\ levels = StaticLevels
  /\ lookups = <<>>
  /\ limiter = NoLimiter

\* analyze: if not req.offers: raise HTTPException(status_code=400, ...)
analyze_rejects ==
  /\ phase = "request"
  /\ request = <<>>
  /\ phase' = "rejected"
  /\ raised' = Exc("HTTPException", NoErr)
  /\ UNCHANGED <<callVars, limiter, request, levels, lookups, shared, before, node, items, completed,
                 exec_res, exec_res_list, ended, skipped>>

\* analyze: the shared store is prepared from the request and handed to the
\* flow, whose stages then run on it
analyze_prepares ==
  /\ phase = "request"
  /\ request # <<>>
  /\ shared' = [shared EXCEPT !.offers = offers_of(request)]
  /\ phase' = "idle"
  /\ UNCHANGED <<callVars, limiter, request, levels, lookups, before, node, items, completed, exec_res,
                 exec_res_list, ended, raised, skipped>>

AnalyzeNext ==
  \/ analyze_rejects
  \/ analyze_prepares
  \/ StageNext

\* the handler of a request to analyze
SpecAnalyze == InitAnalyze /\ [][AnalyzeNext]_vars

(* --------------- runs on offers outside the static mapping ------------- *)
\* the contents company_levels_cache.json can have: a level for any of the
\* keys
CacheFiles == UNION {[keys -> LevelValues] : keys \in SUBSET OfferIds}

\* the offers' levels are not in COMPANY_LEVEL_MAP, and the cache file holds
\* the levels of any of them from earlier runs
InitLevels ==
  /\ creds = {}
  /\ defaultEnv = ""
  /\ enable_cache = FALSE
  /\ plan = 0
  /\ Fresh
  /\ shared \in {[EmptyShared EXCEPT !.offers = s] : s \in Stores}
  /\ before = <<>>
  /\ node = 0
  /\ phase = "idle"
  /\ items = <<>>
  /\ completed = <<>>
  /\ exec_res = <<>>
  /\ exec_res_list = <<>>
  /\ ended = <<>>
  /\ raised = NoExc
  /\ skipped = NoSkip
  /\ request = <<>>
  /\ levels \in {[static |-> FALSE, file |-> f] : f \in CacheFiles}
  /\ lookups = <<>>
  /\ limiter = NoLimiter

LevelsNext ==
  \/ StageNext
  \/ \E i \in OfferIds : level_load(i)
  \/ \E i \in OfferIds, res \in {NoLevel} \cup LevelValues : level_infer(i, res)

SpecLevels == InitLevels /\ [][LevelsNext]_vars

(* ------------------ level lookups made one after another -------------- *)
\* largest number of lookups of a run
MaxLookups == 3

\* no run of the flow; any cache file, the keys asked for all in the static
\* mapping or none of them
InitLookup ==
  /\ creds = {}
  /\ defaultEnv = ""
  /\ enable_cache = FALSE
  /\ plan = 0
  /\ Fresh
  /\ shared = EmptyShared
  /\ before = <<>>
  /\ node = 0
  /\ phase = "idle"
  /\ items = <<>>
  /\ completed = <<>>
  /\ exec_res = <<>>
  /\ exec_res_list = <<>>
  /\ ended = <<>>
  /\ raised = NoExc
  /\ skipped = NoSkip
  /\ request = <<>>
  /\ levels \in {[static |-> st, file |-> f] : st \in BOOLEAN, f \in CacheFiles}
  /\ lookups = <<>>
  /\ limiter = NoLimiter

\* a caller awaits get_universal_level_async for a key, after the lookups it
\* made before have returned
get_universal_level_async(key) ==
  /\ Len(lookups) < MaxLookups
  /\ \A i \in DOMAIN lookups : lookups[i].at \in {"static", "done"}
  /\ lookups' = Append(lookups, NewLookup(key))
  /\ UNCHANGED <<callVars, limiter, request, levels, shared, before, node, phase, items,
                 completed, exec_res, exec_res_list, ended, raised, skipped>>

LookupNext ==
  \/ \E key \in OfferIds : get_universal_level_async(key)
  \/ \E i \in 1..MaxLookups : level_load(i)
  \/ \E i \in 1..MaxLookups, res \in {NoLevel} \cup LevelValues : level_infer(i, res)

SpecLookup == InitLookup /\ [][LookupNext]_vars

(* --------------------------- the rate limiter -------------------------- *)
\* the rows the table can hold for the user when the server starts: none, or
\* the row of an earlier day (day 0)
StartRows ==
  {NoRow} \cup {[exists |-> TRUE, daily_count |-> c, last_used_date |-> 0,
                   total_analyses |-> c] : c \in 1..DAILY_LIMIT}

\* MaxRequests requests of one user are on their way to the server
InitLimit ==
  /\ creds = {}
  /\ defaultEnv = ""
  /\ enable_cache = FALSE
  /\ plan = 0
  /\ Fresh
  /\ NoRun
  /\ limiter \in {[NoLimiter EXCEPT !.row = r,
                                    !.reqs = [i \in 1..MaxRequests |-> NewRequest]] :
                    r \in StartRows}

\* today = date.today().isoformat(); row = supabase.table("user_usage")
\* .select("*").eq("user_id", user_id).execute()
rate_limit_select(r) ==
  /\ r \in DOMAIN limiter.reqs
  /\ limiter.reqs[r].pc = "new"
  /\ limiter' = [limiter EXCEPT !.reqs[r] =
                   [pc |-> "selected", today |-> limiter.today, row |-> limiter.row]]
  /\ UNCHANGED <<callVars, stageVars>>

\* the call returns normally: counted on the day the call took for today
returns_normally(r, row) ==
  [limiter EXCEPT !.row = row,
                  !.reqs[r].pc = "returned",
                  !.passed[limiter.reqs[r].today] = @ + 1]

\* if not row.data: insert daily_count = 1 and return; the insert of a second
\* row for the user is refused by the table
rate_limit_insert(r) ==
  /\ r \in DOMAIN limiter.reqs
  /\ limiter.reqs[r].pc = "selected"
  /\ ~limiter.reqs[r].row.exists
  /\ limiter' =
       IF limiter.row.exists
       THEN [limiter EXCEPT !.reqs[r].pc = "failed"]
       ELSE returns_normally(r, [exists |-> TRUE, daily_count |-> 1,
                                 last_used_date |-> limiter.reqs[r].today,
                                 total_analyses |-> 1])
  /\ UNCHANGED <<callVars, stageVars>>

\* if last_date != today: update daily_count = 1, last_used_date = today
rate_limit_new_day(r) ==
  /\ r \in DOMAIN limiter.reqs
  /\ limiter.reqs[r].pc = "selected"
  /\ limiter.reqs[r].row.exists
  /\ limiter.reqs[r].row.last_used_date # limiter.reqs[r].today
  /\ limiter' = returns_normally(r, [exists |-> TRUE, daily_count |-> 1,
                                     last_used_date |-> limiter.reqs[r].today,
                                     total_analyses |->
                                       limiter.reqs[r].row.total_analyses + 1])
  /\ UNCHANGED <<callVars, stageVars>>

\* if daily_count >= DAILY_LIMIT: raise HTTPException(status_code=429)
rate_limit_refuse(r) ==
  /\ r \in DOMAIN limiter.reqs
  /\ limiter.reqs[r].pc = "selected"
  /\ limiter.reqs[r].row.exists
  /\ limiter.reqs[r].row.last_used_date = limiter.reqs[r].today
  /\ limiter.reqs[r].row.daily_count >= DAILY_LIMIT
  /\ limiter' = [limiter EXCEPT !.reqs[r].pc = "429"]
  /\ UNCHANGED <<callVars, stageVars>>

\* same day, under the limit: update daily_count = daily_count + 1, from the
\* count the call has read
rate_limit_increment(r) ==
  /\ r \in DOMAIN limiter.reqs
  /\ limiter.reqs[r].pc = "selected"
  /\ limiter.reqs[r].row.exists
  /\ limiter.reqs[r].row.last_used_date = limiter.reqs[r].today
  /\ limiter.reqs[r].row.daily_count < DAILY_LIMIT
  /\ limiter' = returns_normally(r, [limiter.row EXCEPT
                                       !.daily_count = limiter.reqs[r].row.daily_count + 1,
                                       !.total_analyses =
                                         limiter.reqs[r].row.total_analyses + 1])
  /\ UNCHANGED <<callVars, stageVars>>

\* the user sends one more request after one has been answered
next_request(r) ==
  /\ r \in DOMAIN limiter.reqs
  /\ limiter.reqs[r].pc \in {"returned", "429", "failed"}
  /\ limiter.passed[limiter.today] <= DAILY_LIMIT
  /\ limiter' = [limiter EXCEPT !.reqs[r] = NewRequest]
  /\ UNCHANGED <<callVars, stageVars>>

\* midnight
next_day ==
  /\ limiter.today < MaxDay
  /\ limiter' = [limiter EXCEPT !.today = @ + 1]
  /\ UNCHANGED <<callVars, stageVars>>

LimitNext ==
  \/ \E r \in 1..MaxRequests :
       \/ rate_limit_select(r)
       \/ rate_limit_insert(r)
       \/ rate_limit_new_day(r)
       \/ rate_limit_refuse(r)
       \/ rate_limit_increment(r)
       \/ next_request(r)
  \/ next_day

\* the requests of one user, each served by its own thread of the server
SpecLimit == InitLimit /\ [][LimitNext]_vars

StageTypeOK ==
  /\ node \in 0..Len(Stages)
  /\ phase \in {"idle", "exec", "merged", "raised", "quick_exec", "quick_done",
               "quick_merged", "quick_raised", "post_merged", "post_raised",
               "request", "rejected", "market_exec", "market_raised",
               "market_merged", "market_post_raised"}
  /\ Len(shared.offers) <= MaxOffers
  /\ Len(completed) <= Len(items)

(* ------------------------- the specifications -------------------------- *)
Next ==
  \/ \E q \in (IF nCalls = 0 THEN {"p1"} ELSE Prompts), m \in RequestedModels :
        call_llm_start(q, m)
  \/ call_llm_entry
  \/ \E a \in Answers : call_llm_openai(a)
  \/ \E a \in Answers : call_llm_anthropic(a)
  \/ call_llm_gemini
  \/ \E a \in Answers : gemini_attempt(a)
  \/ gemini_sleep
  \/ call_llm_except

\* one call of call_llm, from any configuration
Spec == Init /\ [][Next]_vars

\* two calls, with time passing between them
NextRepeat == Next \/ Tick

SpecRepeat == InitRepeat /\ [][NextRepeat]_vars

TypeOK ==
  /\ pc \in {"idle", "call_llm", "dispatch", "gemini_try", "gemini_sleep",
             "except", "returned"}
  /\ depth \in 0..RecursionLimit
  /\ nCalls \in 0..plan

(* ======================= the call layer's claims ======================= *)
Ended == pc = "returned"

\* the exceptions that report a provider's failure with its cause
ProviderFailures == {"All Gemini models exhausted", "OpenAI API error",
                     "Claude API error"}

\* the pair attempted last is a model of the Gemini cascade, and the cascade
\* has decided what follows its last answer and is not going back to it
GeminiTry == tries.provider = "gemini"
MovedOn ==
  /\ GeminiTry
  /\ pc # "gemini_sleep"
  /\ ~(pc = "gemini_try" /\ tries.depth = depth /\ cascade_models[idx] = tries.model)

AllAnswers(P(_)) == \A i \in 1..Len(tries.outs) : P(tries.outs[i])

\* C3: a call whose every attempt failed with a rate limit or a 404 ends by
\* raising one provider failure that carries the error of the last attempt.
C3_ExhaustionRaisesLastCause ==
  (Ended /\ attempts # <<>> /\ result.kind # "ok" /\ hardAt = 0)
    => /\ result.kind = "raise"
       /\ result.type \in ProviderFailures
       /\ result.cause = lastFault

\* C4: a Gemini model that answered every attempt with a per-minute limit
\* has been attempted exactly twice, with one sleep between, when the
\* cascade leaves it.
C4_ShortLimitTriedTwice ==
  (MovedOn /\ AllAnswers(ShortPeriodLimit))
    => (Len(tries.outs) = 2 /\ Len(tries.slept) = 1)

\* C5: after a first per-minute answer without a delay hint the cascade
\* sleeps (a default delay) to retry the same model.
C5_NoHintStillRetried ==
  (GeminiTry /\ Len(tries.outs) = 1 /\ ShortPeriodLimit(tries.outs[1])
     /\ _parse_retry_delay(tries.outs[1]) = 0)
    => pc = "gemini_sleep"

\* C6: after a per-day answer of a Gemini model there is no sleep and no
\* further attempt of that model: the cascade stands at the next model; a
\* model whose first answer is a per-day limit is attempted exactly once.
C6_LongLimitNoRetry ==
  (GeminiTry /\ LongPeriodLimit(tries.outs[Len(tries.outs)]))
    => /\ MovedOn
       /\ (pc = "gemini_try" /\ tries.depth = depth)
            => (idx > 1 /\ cascade_models[idx - 1] = tries.model)
       /\ LongPeriodLimit(tries.outs[1])
            => (Len(tries.outs) = 1 /\ tries.slept = <<>>)

C6_Witness ==
  /\ GeminiTry
  /\ tries.outs = <<[status |-> "429", quotaId |-> "PerDay", retryDelay |-> 0]>>
  /\ pc = "gemini_try"
  /\ idx = 2
  /\ cascade_models[1] = tries.model

\* C7: no call attempts a Gemini model that answered a per-day
\* limit in an earlier call of the process.
C7_NeverAgainInProcess ==
  \A i \in 1..Len(attempts) :
     attempts[i][1] = "gemini" => attempts[i][2] \notin rpdBefore

\* C8: once an attempt failed with neither a rate limit nor a 404 no other
\* attempt is made in that call, and the call raises that error.
C8_HardErrorFailsAtOnce ==
  hardAt # 0
    => /\ Len(attempts) = hardAt
       /\ Ended => (result.kind = "raise" /\ result.cause = lastFault)

\* C9: a call that raises has attempted every model of every available
\* provider, providers and models in their configured order.
Pairs(p) == [i \in 1..Len(AI_PROVIDERS[p]) |-> <<p, AI_PROVIDERS[p][i]>>]
RECURSIVE AllPairs(_)
AllPairs(ps) == IF ps = <<>> THEN <<>> ELSE Pairs(Head(ps)) \o AllPairs(Tail(ps))
\* the available providers, the default one first
PriorityOrder ==
  IF get_default_provider = None THEN <<>>
  ELSE <<get_default_provider>> \o Without(get_available_providers, get_default_provider)
C9_EveryPairInOrder ==
  (Ended /\ result.kind = "raise" /\ attempts # <<>> /\ hardAt = 0 /\ reqModel = None)
    => attempts = AllPairs(PriorityOrder)

\* C10: when the first of two identical calls made within the TTL returned a
\* response, the second invokes no provider and returns that response.
SecondIdentical ==
  /\ enable_cache
  /\ nCalls = 2
  /\ Ended
  /\ prompt = prev.prompt
  /\ reqModel = prev.reqModel
  /\ clock - prev.at < CacheTTL
C10_SecondCallServedFromCache ==
  (SecondIdentical /\ prev.kind = "ok")
    => (attempts = <<>> /\ result.kind = "ok" /\ result.resp = prev.resp)

(* ====================== the stage merge's claims ======================= *)
\* the stage in progress has merged its results into the store
Merged == phase = "merged"

\* C1: after the merge of any enrichment stage the store holds exactly the
\* offers it held when the stage started, in the same order, whatever order
\* the item tasks completed in.
C1_SameOffersSameOrder ==
  Merged =>
    /\ Len(shared.offers) = Len(before)
    /\ \A i \in DOMAIN before :
         /\ shared.offers[i].id = before[i].id
         /\ shared.offers[i].total_compensation = before[i].total_compensation

\* a concurrent stage over MaxOffers offers has merged, and its last item task
\* completed first
C1_Witness ==
  /\ Merged
  /\ Stages[node] = "MarketBenchmarking"
  /\ Len(before) = MaxOffers
  /\ completed[1] = MaxOffers

Perms(n) == {p \in [1..n -> 1..n] : Injective(p)}
Permuted(L, p) == [i \in DOMAIN L |-> L[p[i]]]

\* what a result carries for the fields its stage writes
Payload(stage, r) ==
  CASE stage = "MarketResearch" ->
         <<Tok(r.by, r.kind, "company_research"),
           Tok(r.by, r.kind, "market_sentiment"),
           Tok(r.by, r.kind, "company_db_data"),
           Tok(r.by, r.kind, "enriched_data")>>
    [] stage = "TaxCalculation" ->
         <<Tok(r.by, r.kind, "net_pay_analysis"),
           Tok(r.by, r.kind, "estimated_net_pay"),
           Tok(r.by, r.kind, "estimated_tax_amount")>>
    [] stage = "COLAnalysis" ->
         <<Tok(r.by, "real", "expense_analysis"),
           Tok(r.by, "real", "estimated_annual_expenses"),
           Tok(r.by, r.kind, "net_savings")>>
    [] stage = "MarketBenchmarking" ->
         <<Tok(r.by, r.kind, "base_percentile"),
           Tok(r.by, r.kind, "total_percentile"),
           Tok(r.by, r.kind, "compensation_insights"),
           Tok(r.by, r.kind, "ai_analysis")>>
    [] stage = "PreferenceScoring" -> <<Tok(r.by, r.kind, "score_data")>>
    [] stage = "AIAnalysis" -> <<Tok(r.by, r.kind, "recommendation")>>

\* the fields of an offer that the stage writes from a result
StageFields(stage, offer) ==
  CASE stage = "MarketResearch" ->
         <<offer.company_research, offer.market_sentiment,
           offer.company_db_data, offer.enriched_data>>
    [] stage = "TaxCalculation" ->
         <<offer.net_pay_analysis, offer.estimated_net_pay, offer.estimated_tax>>
    [] stage = "COLAnalysis" ->
         <<offer.expense_analysis, offer.estimated_annual_expenses,
           offer.net_savings>>
    [] stage = "MarketBenchmarking" ->
         <<offer.market_analysis, offer.total_comp_analysis,
           offer.compensation_insights, offer.ai_market_analysis>>
    [] stage = "PreferenceScoring" -> <<offer.score_data>>
    [] stage = "AIAnalysis" -> <<offer.ai_recommendation>>

\* C2: merge is by identifier only. After a stage's merge each offer's stage
\* fields equal the payload of the result whose offer_id is that offer's id,
\* and the merge of any permutation of the same result list gives the same
\* store.
C2_MergedByIdentifier ==
  Merged =>
    /\ \A i \in DOMAIN before : \A j \in DOMAIN exec_res_list :
         exec_res_list[j].offer_id = before[i].id =>
           StageFields(Stages[node], shared.offers[i])
             = Payload(Stages[node], exec_res_list[j])
    /\ \A p \in Perms(Len(exec_res_list)) :
         post(Stages[node], before, Permuted(exec_res_list, p)) = shared.offers

\* a stage has merged the results of MaxOffers offers whose store order is
\* not the order of their identifiers
C2_Witness ==
  /\ Merged
  /\ Stages[node] = "TaxCalculation"
  /\ Len(before) = MaxOffers
  /\ before[1].id = MaxOffers
  /\ shared.offers[1].net_pay_analysis = Tok(MaxOffers, "real", "net_pay_analysis")

(* ==================== the claims on degraded stages ==================== *)
\* the stage in progress is one whose item task has the mock-data except clause
MockStage == node > 0 /\ Stages[node] \in {"MarketResearch", "MarketBenchmarking"}

\* item task i has finished and its external calls ended in the aggregated
\* exhaustion failure
Exhausted(i) ==
  /\ i \in DOMAIN ended
  /\ ended[i] = ExhaustionFailure

\* C11: in MarketResearchNode and MarketBenchmarkingNode an item task whose
\* external calls end in the aggregated exhaustion failure does not raise: it
\* returns a placeholder result carrying the offer identifier of its item,
\* the merge of the stage can run once every task has returned, and after the
\* merge the offer holds the placeholder values.
C11_ExhaustionGivesPlaceholder ==
  MockStage =>
    /\ raised # ExhaustionFailure
    /\ \A i \in DOMAIN items : Exhausted(i) =>
         /\ exec_res[i] = [offer_id |-> items[i].offer_id, by |-> items[i].by,
                           kind |-> "mock"]
         /\ Merged => StageFields(Stages[node], shared.offers[i])
                        = Payload(Stages[node], exec_res[i])
    /\ Joined => ENABLED enrich_post

\* MarketBenchmarking has merged two offers: the task of the first ended in
\* the exhaustion failure and the offer holds the placeholder percentile, the
\* second has a real result
C11_Witness ==
  /\ Merged
  /\ Stages[node] = "MarketBenchmarking"
  /\ Len(before) = MaxOffers
  /\ Exhausted(1)
  /\ shared.offers[1].market_analysis = Tok(before[1].id, "mock", "base_percentile")
  /\ shared.offers[2].market_analysis = Tok(before[2].id, "real", "base_percentile")

\* a stage invocation has raised
StageRaised == phase \in {"raised", "quick_raised"}

\* C12: when a stage invocation raises, every offer of the store holds exactly
\* the field values it had when the stage started.
C12_RaiseLeavesStoreUntouched ==
  StageRaised => shared.offers = before

\* the external calls of item task i ended in a failure that is no rate limit
\* and no exhaustion
HardEnded(i) == ended[i] # NoExc /\ ~quota_hit(ended[i])

\* C13: in every stage an external-call failure that is no rate-limit or
\* exhaustion condition is never replaced by a result: the task returns
\* nothing and the failure is the exception that leaves the stage.
C13_HardFailureNeverReplaced ==
  \A i \in DOMAIN ended :
    HardEnded(i) => /\ exec_res[i] = Pending
                    /\ StageRaised
                    /\ raised = ended[i]

(* ================== the claims on the merge of a stage ================= *)
\* the results of L whose identifier is the identifier of an offer
RECURSIVE Known(_, _)
Known(L, offers) ==
  IF L = <<>> THEN <<>>
  ELSE (IF \E i \in DOMAIN offers : offers[i].id = Head(L).offer_id
        THEN <<Head(L)>> ELSE <<>>) \o Known(Tail(L), offers)

PostCalled == phase \in {"post_merged", "post_raised"}

\* C14: in the merge of every stage a result whose offer identifier matches
\* no offer of the store, or that has no offer identifier, is dropped: the
\* merge does not raise, and the offers are what the merge of the other
\* results alone makes them.
C14_UnknownResultDropped ==
  PostCalled =>
    /\ phase = "post_merged"
    /\ shared.offers = post(Stages[node], before, Known(exec_res_list, before))

(* ================ the claims on a missing stage result ================= *)
\* the flow has run its last stage
Completed == node = Len(Stages) /\ phase = "merged"

\* a stage has merged its results with none for the offer at skipped.item
Skipped == skipped.node # 0 /\ node >= skipped.node /\ (node = skipped.node => Merged)

\* the flow can take its next step: an item task can return, the post of the
\* stage can run on the results, or the next stage can start
CanStep ==
  IF Joined
  THEN ENABLED (\/ enrich_post
                \/ PreferenceScoringNode_post
                \/ AIAnalysisNode_post_async
                \/ VisualizationPreparationNode_post
                \/ ReportGenerationNode_post)
  ELSE IF phase = "exec"
  THEN \E i \in DOMAIN items : \E e \in Endings(Stages[node]) :
         \E kind \in Outcomes(Stages[node], items[i], e) :
           ENABLED task_returns(i, kind, e)
  ELSE ENABLED stage_prep

Enriched == node >= 6 /\ (node = 6 => Merged)

\* every field the enrichment stages write is set in the offer
AllFieldsSet(offer) ==
  /\ \A stage \in PerOffer :
       \A k \in DOMAIN StageFields(stage, offer) :
         StageFields(stage, offer)[k] # Missing
  /\ offer.growth_description # Missing
  /\ offer.growth_points # Missing
  /\ offer.wlb_score # 0
  /\ offer.growth_score # 0
  /\ offer.wlb_grade # ""
  /\ offer.growth_grade # ""
  /\ offer.benefits_grade # ""
  /\ offer.market_percentile # -1
  /\ offer.market_median # -1

\* C16: when the last enrichment stage has finished, every offer has every
\* enrichment field set.
C16_EveryFieldSet ==
  Enriched => \A i \in DOMAIN shared.offers : AllFieldsSet(shared.offers[i])

(* ======================= the claims on defaulting ====================== *)
\* the market research stage has merged its results
ResearchMerged == Merged /\ Stages[node] = "MarketResearch"

\* C17: the defaulting done at merge is idempotent. Applying the merge of
\* MarketResearchNode (score and grade defaulting included) a second time with
\* the same result list leaves the store as the first application left it.
C17_ResearchMergeIdempotent ==
  ResearchMerged =>
    /\ shared.offers = post("MarketResearch", before, exec_res_list)
    /\ post("MarketResearch", shared.offers, exec_res_list) = shared.offers

\* the merge has filled the scores and grades the user left out, from a result
\* without database data
C17_Witness ==
  /\ ResearchMerged
  /\ \E i \in DOMAIN before :
       /\ before[i].wlb_score = 0
       /\ before[i].wlb_grade = ""
       /\ lookup(exec_res_list)[before[i].id].kind = "nodb"
       /\ shared.offers[i].wlb_score = 60
       /\ shared.offers[i].wlb_grade = "B"

(* ======================= the claims on the request ===================== *)
\* the store of the request has been prepared and handed to the flow
Prepared == request # <<>> /\ phase \notin {"request", "rejected"}

\* C18: every offer list handed to the pipeline has pairwise distinct
\* identifiers. For any request to analyze, with any mix of ids given by the
\* client and ids left out, no two offers of the prepared store share an id.
C18_IdsPairwiseDistinct ==
  Prepared =>
    \A i, j \in DOMAIN shared.offers :
      i # j => shared.offers[i].id # shared.offers[j].id

(* ==================== the claims on degraded results =================== *)
\* the result is a placeholder: the mock data of a quota failure, the
\* recommendation of a failed analysis, a research with default scores
Degraded(r) == r.kind \in {"mock", "fallback", "unscored"}

\* the fields the stage wrote into the offer hold a wording of the code's own
Marked(stage, offer) ==
  \E k \in DOMAIN StageFields(stage, offer) :
    written_text(StageFields(stage, offer)[k]) # ""

FlowOrder ==
  <<"MarketResearch", "TaxCalculation", "COLAnalysis", "MarketBenchmarking",
    "PreferenceScoring", "AIAnalysis", "VisualizationPreparation",
    "ReportGeneration">>

\* no offer holds a field of a stage that comes after the stage in progress
LaterUntouched ==
  node > 0 =>
    \A m \in DOMAIN Stages : \A i \in DOMAIN shared.offers :
      (m > node /\ Stages[m] \in PerOffer) =>
        \A k \in DOMAIN StageFields(Stages[m], shared.offers[i]) :
          StageFields(Stages[m], shared.offers[i])[k] = Missing

\* a step of the flow: a stage starts only as the successor of a stage that
\* has merged (or as the first), and the store changes only in the merge of
\* the stage in progress, once all its item tasks have finished
StepInOrder ==
  /\ node' # node =>
        /\ node' = node + 1
        /\ phase \in {"idle", "merged"}
        /\ phase' = "exec"
        /\ shared' = shared
  /\ (node > 0 /\ shared' # shared) =>
        /\ node' = node
        /\ Joined
        /\ phase' = "merged"

\* C20: in the full flow the stages run one at a time in the order
\* MarketResearch, TaxCalculation, COLAnalysis, MarketBenchmarking,
\* PreferenceScoring, AIAnalysis, VisualizationPreparation, ReportGeneration:
\* no stage's prep starts before the merge of the stage before it has
\* finished, and no two stages touch the store at the same time.
C20_StagesOneAtATimeInOrder ==
  /\ Stages = FlowOrder
  /\ [](node \in 0..Len(FlowOrder) /\ LaterUntouched)
  /\ [][StepInOrder]_vars

\* the flow has run its eight stages over MaxOffers offers
C20_Witness ==
  /\ node = Len(FlowOrder)
  /\ Merged
  /\ Len(shared.offers) = MaxOffers
  /\ shared.final_report # <<>>
  /\ \A i \in DOMAIN shared.offers : shared.offers[i].score_data # Missing

(* ================= the claims on the item tasks of a stage ============= *)
\* the stages that are an AsyncParallelBatchNode
ParallelBatch == {"MarketResearch", "MarketBenchmarking"}

\* an async-parallel-batch stage is executing its item tasks
InParallelExec == phase = "exec" /\ Stages[node] \in ParallelBatch

\* item task i of the stage in progress has been started and has not finished
Running(i) ==
  /\ phase = "exec"
  /\ i \in DOMAIN items
  /\ \A j \in DOMAIN completed : completed[j] # i

\* every unfinished item task is running: it can be the next to finish,
\* whichever tasks have finished before it
AllStarted ==
  InParallelExec =>
    \A i \in DOMAIN items :
      Running(i) => \E kind \in {"nodb", "real"} : ENABLED task_returns(i, kind, NoExc)

\* the store is written only in the merge, after every item task has finished
WriteAfterJoin ==
  (InParallelExec /\ shared' # shared) =>
    /\ \A i \in DOMAIN items : ~Running(i) /\ exec_res[i] # Pending
    /\ phase' = "merged"
    /\ exec_res_list' = gather(exec_res)

TaskStep == phase = "exec" /\ phase' # "merged"

\* C22: while the item tasks of one stage run concurrently, an item task
\* writes no state shared with the other item tasks: no offer's fields in the
\* store and no stage-global or process-global accumulator (it only hands its
\* own result to the stage).
C22_TasksWriteNothingShared ==
  [][TaskStep => (shared' = shared /\ levels' = levels)]_vars

\* the stages that are a BatchNode
SequentialBatch == {"TaxCalculation", "COLAnalysis", "PreferenceScoring"}

\* a sequential-batch stage is in progress
InSequential == node > 0 /\ Stages[node] \in SequentialBatch

\* item i of the stage in progress has failed
ItemFailed(i) == i \in DOMAIN ended /\ ended[i] # NoExc

\* the items have been processed one at a time in input order
InInputOrder == \A j \in DOMAIN completed : completed[j] = j

\* the item after i has been processed, or is the one processed next
GoesOn(i) ==
  \/ \E j \in DOMAIN completed : completed[j] = i + 1
  \/ \E kind \in {"real", "no_net_pay"} : ENABLED task_returns(i + 1, kind, NoExc)

\* C23: in a sequential-batch stage (TaxCalculation, COLAnalysis,
\* PreferenceScoring) the items are processed one at a time in input order,
\* and the failure of one item does not prevent the later items from being
\* processed and their results from being merged.
C23_FailureBlocksNoLaterItem ==
  InSequential =>
    /\ InInputOrder
    /\ \A i \in DOMAIN items :
         (ItemFailed(i) /\ i < Len(items)) => (phase # "raised" /\ GoesOn(i))

(* =================== the claims on provider selection ================== *)
\* the exception the finished call raised, as an item task catches it
CaughtByTask == Exc(result.type, result.cause)

\* the stages whose item task calls the model and re-raises what its except
\* clause does not take for a quota failure
ReRaising == {"MarketResearch", "MarketBenchmarking"}

\* C24: with no provider credential present call_llm raises at once, without
\* any provider attempt, and the item tasks do not take that failure for
\* provider exhaustion: it is raised out of the stage, not replaced by a
\* placeholder result.
C24_NoProviderFailsFast ==
  creds = {} =>
    /\ attempts = <<>>
    /\ tries.outs = <<>>
    /\ depth <= 1
    /\ Ended =>
         /\ result.kind = "raise"
         /\ result.type = "No AI provider available"
         /\ ~quota_hit(CaughtByTask)
         /\ \A stage \in ReRaising :
              Outcomes(stage, Item(NewOffer(1, FALSE)), CaughtByTask) = {}

\* a call made with no credential has ended
C24_Witness ==
  /\ creds = {}
  /\ Ended
  /\ nCalls = 1
  /\ result.type = "No AI provider available"

\* the provider is in the list of available providers
Listed(p) == \E i \in DOMAIN get_available_providers : get_available_providers[i] = p

\* the position of the provider in the declaration of AI_PROVIDERS
Declared(p) == CHOOSE i \in DOMAIN ProviderOrder : ProviderOrder[i] = p

\* the available provider declared first
FirstDeclared ==
  CHOOSE p \in creds : \A q \in creds : Declared(p) <= Declared(q)

\* C25: for every combination of credentials and DEFAULT_AI_PROVIDER: a
\* provider is listed as available iff its credential variable is non-empty;
\* the default provider is None iff no provider is available, and otherwise is
\* an available provider, the one DEFAULT_AI_PROVIDER names when that one is
\* available, else the first available in declaration order. A call that names
\* no provider is dispatched to the default provider.
C25_DefaultProvider ==
  /\ \A p \in ProviderIds : Listed(p) <=> p \in creds
  /\ Len(get_available_providers) = Cardinality(creds)
  /\ get_default_provider = None <=> creds = {}
  /\ creds # {} =>
       /\ get_default_provider \in creds
       /\ get_default_provider =
            IF defaultEnv \in creds THEN defaultEnv ELSE FirstDeclared
  /\ (pc = "dispatch" /\ depth = 1) => provider = get_default_provider

\* a call is dispatched to the provider DEFAULT_AI_PROVIDER names, which is
\* not the first available one
C25_Witness ==
  /\ pc = "dispatch"
  /\ depth = 1
  /\ defaultEnv = "anthropic"
  /\ creds = ProviderIds
  /\ provider = "anthropic"

(* ===================== the claims on the rate limiter ================== *)
\* the table says the user has used up the day's calls
LimitReached ==
  /\ limiter.row.exists
  /\ limiter.row.last_used_date = limiter.today
  /\ limiter.row.daily_count >= DAILY_LIMIT

InputFields(offer) ==
  [id |-> offer.id, company |-> offer.company, position |-> offer.position,
   location |-> offer.location, base_salary |-> offer.base_salary,
   equity |-> offer.equity, bonus |-> offer.bonus,
   total_compensation |-> offer.total_compensation]

\* the step leaves the input fields of every offer of the store as they are
InputsKept ==
  /\ Len(shared'.offers) = Len(shared.offers)
  /\ \A i \in DOMAIN shared.offers :
       InputFields(shared'.offers[i]) = InputFields(shared.offers[i])

\* C27: no stage changes the input fields of any offer: id, company,
\* position, location, base_salary, equity, bonus and total_compensation of
\* every offer are after any sequence of stages what they were at the start
\* of the run; the stages only add or set enrichment fields.
C27_InputFieldsUnchanged == [][InputsKept]_vars

\* every stage has merged into a store of MaxOffers offers, the benchmarking
\* with the results of its tasks
C27_Witness ==
  /\ node = Len(Stages)
  /\ Merged
  /\ Len(shared.offers) = MaxOffers
  /\ \A i \in DOMAIN shared.offers :
       /\ shared.offers[i].market_median # -1
       /\ shared.offers[i].score_data # Missing
       /\ shared.offers[i].ai_recommendation # Missing

(* ================ the claims on the order of the attempts ============== *)
\* the i-th attempt of the call is the first one of a run of the Gemini
\* cascade
CascadeOpens(i) ==
  /\ attempts[i][1] = "gemini"
  /\ i = 1 \/ attempts[i - 1][1] # "gemini"

\* C28: the position in the cascade is not carried between calls: every call
\* of the Gemini cascade that pins no model makes its first attempt on the
\* first configured model, whatever model served or failed in earlier calls.
C28_CascadeStartsAtFirstModel ==
  reqModel = None =>
    \A i \in DOMAIN attempts :
      CascadeOpens(i) => attempts[i][2] = AI_PROVIDERS["gemini"][1]

\* a run of the Gemini cascade is in progress
InCascade == pc \in {"gemini_try", "gemini_sleep"}

\* the number of attempts the cascade run in progress has made
Trail ==
  CHOOSE n \in 0..Len(attempts) :
    /\ \A i \in (Len(attempts) - n + 1)..Len(attempts) : attempts[i][1] = "gemini"
    /\ n = Len(attempts) \/ attempts[Len(attempts) - n][1] # "gemini"

\* the models the cascade run in progress has attempted, in order
Attempted_models == [i \in 1..Trail |-> attempts[Len(attempts) - Trail + i][2]]

\* the order of the chain: the requested model, then the configured models
\* in their configured order, each model once
ChainInOrder ==
  /\ cascade_models[1] = model
  /\ Tail(cascade_models) = Without(AI_PROVIDERS["gemini"], model)
  /\ Injective(cascade_models)

\* the attempts made are the head of the chain, up to the model in turn
AttemptsFollowChain ==
  /\ Trail \in {idx - 1, idx}
  /\ Attempted_models = SubSeq(cascade_models, 1, Trail)

\* the run goes on to the next model of the chain only from a rate limit or
\* a not-found answer of the model in turn
NextOnlyAfterFailure ==
  (InCascade /\ InCascade' /\ idx' # idx) =>
    /\ idx' = idx + 1
    /\ cascade_models' = cascade_models
    /\ lastFault'.model = cascade_models[idx]
    /\ is_rate_limit(lastFault') \/ is_not_found(lastFault')
    /\ attempts'[Len(attempts')] = <<"gemini", cascade_models[idx]>>

\* C29: the attempt order of one call of the Gemini cascade is the requested
\* model first, then the configured models in their configured relative
\* order, each model once; a model is attempted only after every model
\* before it in that order has failed with a rate limit or a not-found error
\* in this call.
C29_AttemptOrderOfCascade ==
  /\ [](InCascade => (ChainInOrder /\ AttemptsFollowChain))
  /\ [][NextOnlyAfterFailure]_vars

\* the requested model is the second of the list: it was attempted first, the
\* first of the list after it, and the last of the list is in turn
C29_Witness ==
  /\ pc = "gemini_try"
  /\ model = AI_PROVIDERS["gemini"][2]
  /\ idx = 3
  /\ Attempted_models = <<AI_PROVIDERS["gemini"][2], AI_PROVIDERS["gemini"][1]>>

\* the number of times the call has turned to provider p
ProviderRuns(p) ==
  Cardinality({i \in DOMAIN attempts :
                 /\ attempts[i][1] = p
                 /\ i = 1 \/ attempts[i - 1][1] # p})

\* C30: with two or more providers available and every attempt failing,
\* call_llm terminates: it attempts each available provider at most once
\* within one logical call and then raises; it never alternates between
\* providers without bound.
C30_EachProviderAtMostOnce ==
  Cardinality(creds) >= 2 =>
    /\ \A p \in ProviderIds : ProviderRuns(p) <= 1
    /\ (Ended /\ result.kind = "raise") => result.type # "RecursionError"

(* ====================== the claims on the fallback ===================== *)
\* C31: whenever call_llm falls back from a failed provider to another
\* provider, the model it requests from the fallback provider is one of that
\* provider's configured models, never a model name of the provider that
\* failed.
C31_FallbackModelIsConfigured ==
  \A i \in DOMAIN attempts :
    (i > 1 /\ attempts[i - 1][1] # attempts[i][1])
      => InSeq(AI_PROVIDERS[attempts[i][1]], attempts[i][2])

(* ================= the claim on the research merge's priority ========== *)
\* the scores and grades a user can give with an offer
UserFields == {"wlb_score", "growth_score", "wlb_grade", "growth_grade",
               "benefits_grade"}

\* the offer holds a value in the field: not offer.get(field) is false
IsSet(offer, field) ==
  IF field \in {"wlb_score", "growth_score"} THEN offer[field] # 0
  ELSE offer[field] # ""

Inferred(l) == l.at = "done" /\ l.called /\ l.res # NoLevel

\* C33: when two concurrent item tasks each infer a level through
\* get_universal_level_async for different keys and both inferences succeed,
\* the company-level cache holds both entries once both tasks have
\* completed, in every interleaving.
C33_BothInferencesCached ==
  \A i, j \in DOMAIN lookups :
    (Inferred(lookups[i]) /\ Inferred(lookups[j]) /\ lookups[i].key # lookups[j].key)
      => {lookups[i].key, lookups[j].key} \subseteq DOMAIN levels.file

\* the lookup asks the model in this step
AsksModel(i) == i \in DOMAIN lookups /\ ~lookups[i].called /\ lookups'[i].called

\* the model is asked only for a key that neither mapping holds
AskedOnlyWhenUnknown ==
  \A i \in DOMAIN lookups :
    lookups[i].called =>
      (~levels.static /\ lookups[i].key \notin DOMAIN lookups[i].seen)

\* a lookup made after a lookup of the same key has inferred a level asks
\* nothing and returns that level
SecondServedFromCache ==
  \A i, j \in DOMAIN lookups :
    (i < j /\ Inferred(lookups[i]) /\ lookups[j].key = lookups[i].key
       /\ lookups[j].at = "done")
      => (~lookups[j].called /\ lookups[j].res = lookups[i].res)

\* an inference that gave None leaves the cache as it is
NoneNotStored ==
  \A i \in 1..MaxLookups :
    (AsksModel(i) /\ lookups'[i].res = NoLevel) => levels' = levels

\* C34: get_universal_level_async issues an LLM call only when neither the
\* static company map nor the level cache holds the key; after one call whose
\* inference succeeded, a second sequential call with the same company,
\* pillar and level issues no LLM call and returns the same level, while a
\* failed inference (None) is not stored.
C34_InferOnceThenCached ==
  /\ [](AskedOnlyWhenUnknown /\ SecondServedFromCache)
  /\ [](\A k \in DOMAIN levels.file : levels.file[k] \in LevelValues)
  /\ [][NoneNotStored]_vars

\* a first lookup's inference failed, a second one of the same key inferred a
\* level and a third one returned that level from the cache
C34_Witness ==
  /\ Len(lookups) = 3
  /\ \A i \in 1..3 : lookups[i].key = lookups[1].key /\ lookups[i].at = "done"
  /\ lookups[1].called /\ lookups[1].res = NoLevel
  /\ Inferred(lookups[2])
  /\ ~lookups[3].called /\ lookups[3].res = lookups[2].res

(* ================== the claims on the AI analysis stage ================ *)
AnalysisMerged == Merged /\ Stages[node] = "AIAnalysis"

\* C35: in AIAnalysisNode, for offers with pairwise distinct ids, the
\* ai_recommendation stored on each offer is the recommendation generated
\* from that same offer, whatever order the concurrently running per-offer
\* recommendation tasks completed in.
C35_RecommendationOfSameOffer ==
  AnalysisMerged =>
    \A i \in DOMAIN shared.offers :
      /\ shared.offers[i].ai_recommendation.by = shared.offers[i].id
      /\ shared.offers[i].ai_recommendation.part = "recommendation"

\* the recommendations of MaxOffers offers were merged, the task of the last
\* offer having completed first
C35_Witness ==
  /\ AnalysisMerged
  /\ Len(shared.offers) = MaxOffers
  /\ completed[1] = MaxOffers
  /\ shared.offers[1].id = MaxOffers

\* C36: after the merge of AIAnalysisNode the ranking is in sync with the
\* store: for every entry of comparison_results.ranked_offers whose id is an
\* offer id of the store, the entry's offer_data is that store offer and the
\* entry's ai_recommendation equals that offer's ai_recommendation.
C36_RankingInSync ==
  AnalysisMerged =>
    \A k \in DOMAIN shared.ranked_offers :
      (\E i \in DOMAIN shared.offers :
          shared.offers[i].id = shared.ranked_offers[k].offer_id)
        => /\ shared.ranked_offers[k].offer_data \in DOMAIN shared.offers
           /\ shared.offers[shared.ranked_offers[k].offer_data].id
                = shared.ranked_offers[k].offer_id
           /\ shared.ranked_offers[k].ai_recommendation
                = shared.offers[shared.ranked_offers[k].offer_data].ai_recommendation

\* the ranking of MaxOffers offers is not in the order of the store, and its
\* entries hold the recommendations
C36_Witness ==
  /\ AnalysisMerged
  /\ Len(shared.ranked_offers) = MaxOffers
  /\ shared.ranked_offers[1].offer_data # 1
  /\ \A k \in DOMAIN shared.ranked_offers :
       shared.ranked_offers[k].ai_recommendation # Missing

(* ======================== the claim on the ranking ===================== *)
\* the scoring stage has merged: the store holds compare_offers of its offers
Ranked == Merged /\ Stages[node] = "PreferenceScoring"

\* C37: for every list of offers, compare_offers returns ranked_offers
\* holding each input offer exactly once, ordered by non-increasing
\* total_score with rank equal to position (1..N), and top_offer is the
\* rank-1 entry, or None when the list is empty.
C37_RankedOnceInOrder ==
  Ranked =>
    \E ranked \in {compare_offers(shared.offers)} :
      /\ shared.ranked_offers = ranked
      /\ Len(ranked) = Len(shared.offers)
      /\ \A i \in DOMAIN shared.offers :
           Cardinality({k \in DOMAIN ranked : ranked[k].offer_data = i}) = 1
      /\ \A k \in DOMAIN ranked :
           /\ ranked[k].offer_id = shared.offers[ranked[k].offer_data].id
           /\ ranked[k].total_score = total_score(shared.offers[ranked[k].offer_data])
           /\ ranked[k].rank = k
           /\ k > 1 => ranked[k - 1].total_score >= ranked[k].total_score
      /\ IF shared.offers = <<>> THEN top_offer(ranked) = None
         ELSE top_offer(ranked) = ranked[1] /\ top_offer(ranked).rank = 1

\* MaxOffers offers were ranked, the first offer of the store not at the top
C37_Witness ==
  /\ Ranked
  /\ Len(shared.ranked_offers) = MaxOffers
  /\ shared.ranked_offers[1].offer_data # 1
  /\ shared.ranked_offers[1].total_score > shared.ranked_offers[MaxOffers].total_score

(* ================= the claim on the usage row's counters =============== *)
\* the call of request r is rejected with 429 in this step
Rejected(r) == limiter.reqs[r].pc = "selected" /\ limiter'.reqs[r].pc = "429"

\* the call of request r returns normally in this step
ReturnsNormally(r) ==
  limiter.reqs[r].pc = "selected" /\ limiter'.reqs[r].pc = "returned"

\* C38: a call of check_and_consume_rate_limit that is rejected with 429
\* leaves the user's usage row unchanged (daily_count, last_used_date and
\* total_analyses keep their values), and every call that returns normally
\* increases total_analyses by exactly 1.
C38_RejectedWritesNothing ==
  [][\A r \in DOMAIN limiter.reqs :
       /\ Rejected(r) => limiter'.row = limiter.row
       /\ ReturnsNormally(r) =>
            limiter'.row.total_analyses = limiter.row.total_analyses + 1]_vars

(* ---------------- the quick market analysis -------------------------- *)
\* QuickMarketAnalysisNode.exec_async's result for one item: the percentiles
\* and insights of the analysis ("real") or of the quota mock ("mock"), and
\* company_db_data: the company's database entry (db) or {}
quick_market_result(item, kind, db) ==
  [offer_id |-> item.offer_id, by |-> item.by, kind |-> kind, db |-> db]

\* QuickMarketAnalysisNode.post_async reads the names wlb_score and
\* growth_score, which nothing defines: the company's entry has culture
\* metrics and the offer lacks one of the two scores
quick_market_NameError(offer, r) ==
  r.db /\ (offer.wlb_score = 0 \/ offer.growth_score = 0)

\* the offer as the NameError leaves it: the company data is written
quick_market_company(offer, r) ==
  IF r.db
  THEN [offer EXCEPT !.company_db_data = Tok(r.by, r.kind, "company_db_data")]
  ELSE offer

\* QuickMarketAnalysisNode.post_async, for one offer and its result, when
\* nothing raises
quick_market_update(offer, r) ==
  LET total_p == Tok(r.by, r.kind, "total_percentile")
      o == quick_market_company(offer, r)
  IN  [o EXCEPT
         !.wlb_grade = IF r.db /\ o.wlb_grade = ""
                       THEN map_score_to_grade(o.wlb_score) ELSE @,
         !.growth_grade = IF r.db /\ o.growth_grade = ""
                          THEN map_score_to_grade(o.growth_score) ELSE @,
         !.benefits_grade = IF r.db /\ o.benefits_grade = "" THEN "A" ELSE @,
         !.market_analysis = Tok(r.by, r.kind, "base_percentile"),
         !.total_comp_analysis = total_p,
         !.compensation_insights = Tok(r.by, r.kind, "compensation_insights"),
         !.market_percentile = market_percentile(total_p),
         !.market_median = IF r.kind = "real" THEN 80 * r.by ELSE 0]

\* prep_async: one item for each offer of the store
QuickMarketAnalysisNode_prep_async ==
  /\ phase = "idle"
  /\ node = 0
  /\ shared.offers # <<>>
  /\ phase' = "market_exec"
  /\ before' = shared.offers
  /\ items' = prep(shared.offers)
  /\ completed' = <<>>
  /\ exec_res' = [i \in DOMAIN shared.offers |-> Pending]
  /\ ended' = [i \in DOMAIN shared.offers |-> NoExc]
  /\ UNCHANGED <<callVars, limiter, request, levels, lookups, shared, node,
                 exec_res_list, raised, skipped>>

\* exec_async of item i: the company is looked up in the database (db), then
\* the analysis calls end in e; a quota error gives the mock result, any
\* other error is raised again and leaves the gather
QuickMarketAnalysisNode_exec_async(i, db, e) ==
  /\ phase = "market_exec"
  /\ i \in DOMAIN items
  /\ ~InSeq(completed, i)
  /\ ended' = [ended EXCEPT ![i] = e]
  /\ completed' = Append(completed, i)
  /\ IF e # NoExc /\ ~quota_hit(e)
     THEN /\ raised' = e
          /\ phase' = "market_raised"
          /\ UNCHANGED exec_res
     ELSE /\ exec_res' =
               [exec_res EXCEPT
                  ![i] = quick_market_result(
                           items[i], IF e = NoExc THEN "real" ELSE "mock", db)]
          /\ UNCHANGED <<raised, phase>>
  /\ UNCHANGED <<callVars, limiter, request, levels, lookups, shared, before,
                 node, items, exec_res_list, skipped>>

\* post_async: the offers are updated in place, in the store's order; the
\* first offer at which the NameError is raised keeps its company data, the
\* offers after it are not reached
QuickMarketAnalysisNode_post_async ==
  /\ phase = "market_exec"
  /\ Len(completed) = Len(items)
  /\ LET market_lookup == lookup(exec_res)
         offers == shared.offers
         Has(i) == offers[i].id \in DOMAIN market_lookup
         Of(i) == market_lookup[offers[i].id]
         stops == {i \in DOMAIN offers :
                     Has(i) /\ quick_market_NameError(offers[i], Of(i))}
         Reached(i) == \A j \in stops : i < j
         At(i) == i \in stops /\ \A j \in stops : i <= j
     IN  /\ shared' =
              [shared EXCEPT
                 !.offers =
                   [i \in DOMAIN offers |->
                      IF ~Has(i) THEN offers[i]
                      ELSE IF Reached(i)
                           THEN quick_market_update(offers[i], Of(i))
                      ELSE IF At(i)
                           THEN quick_market_company(offers[i], Of(i))
                      ELSE offers[i]]]
         /\ IF stops = {}
            THEN phase' = "market_merged" /\ UNCHANGED raised
            ELSE phase' = "market_post_raised"
                 /\ raised' = Exc("NameError", NoErr)
  /\ exec_res_list' = exec_res
  /\ UNCHANGED <<callVars, limiter, request, levels, lookups, before, node,
                 items, completed, exec_res, ended, skipped>>

QuickMarketNext ==
  \/ QuickMarketAnalysisNode_prep_async
  \/ \E i \in OfferIds, db \in BOOLEAN, e \in {NoExc} \cup CallFailures :
       QuickMarketAnalysisNode_exec_async(i, db, e)
  \/ QuickMarketAnalysisNode_post_async

SpecQuickMarket == InitStage /\ [][QuickMarketNext]_vars

\* the five market fields of the offer are set
MarketFieldsSet(offer) ==
  /\ offer.market_analysis # Missing
  /\ offer.total_comp_analysis # Missing
  /\ offer.compensation_insights # Missing
  /\ offer.market_percentile # -1
  /\ offer.market_median # -1

\* C39: the merge of the quick market analysis never raises for well-formed
\* results: once post_async was given the results of the item tasks, it has
\* not raised, and every offer that has a result has its market_analysis,
\* total_comp_analysis, compensation_insights, market_percentile and
\* market_median set, whatever company data the result carries and whether
\* or not the offer already had wlb_score and growth_score
C39_QuickMarketMergeComplete ==
  phase \in {"market_merged", "market_post_raised"} =>
    /\ phase = "market_merged"
    /\ \A i \in DOMAIN shared.offers :
         (\E j \in DOMAIN exec_res_list :
            exec_res_list[j].offer_id = shared.offers[i].id)
         => MarketFieldsSet(shared.offers[i])

====
